---- MODULE Spec2Model ----
(***************************************************************************)
(* A model of errcheck (kisielk/errcheck): the statement visitor with its  *)
(* call classifier and regex exclusion (checker.Visit and helpers), the    *)
(* embedded-interface walker (walkThroughEmbeddedInterfaces) and the       *)
(* concurrent aggregation of CheckPackages.                                *)
(*                                                                         *)
(* Strings that the program orders (file names, rendered source lines)     *)
(* are sequences of character codes; names that are only compared for      *)
(* equality are TLA+ strings.  A compiled regular expression is the set of *)
(* identifier names it matches.                                            *)
(***************************************************************************)
EXTENDS Integers, Sequences, FiniteSets, TLC

VARIABLES
    chk,        \* the checker of the visitor run: ignore, blank, asserts, lines, errors
    node,       \* the node handed to checker.Visit by ast.Walk (NoNode before the first)
    walked,     \* number of statements ast.Walk has delivered so far
    panicked,   \* TRUE once Visit has aborted with a run-time panic
    decls,      \* the interface declarations of the type-checked program
    sel,        \* the selection x.f handed to walkThroughEmbeddedInterfaces
    currentT,   \* walker: the type reached so far
    result,     \* walker: the chain of types built so far
    fieldI,     \* walker: position in indexes[:len(indexes)-1]
    wpc,        \* walker: "enter", "fields", "loop", "returned" or "panic"
    wok,        \* walker: the boolean it returned
    args,       \* CheckPackages: its ignore, blank and asserts arguments
    program,    \* CheckPackages: what the loader yields (an error or the initial packages)
    mainpc,     \* CheckPackages: "load", "spawn", "wait", "return", "done" or "crashed"
    loopI,      \* CheckPackages: position in program.InitialPackages()
    wg,         \* the WaitGroup counter
    errsMutex,  \* 0 when free, else the worker holding it
    errs,       \* the merged list
    gpc,        \* per worker: "none", "walk", "lock", "append", "unlock", "done", "exited"
    visitor,    \* per worker: its checker
    astI,       \* per worker: the next statement ast.Walk delivers
    appendI,    \* per worker: the next element of its batch that append copies
    ret,        \* what CheckPackages returned
    argv,       \* mainCmd: the flag arguments of the command line
    argI,       \* mainCmd: the next argument flags.Parse reads
    flagIgnore, \* mainCmd: the ignoreFlag map (package path, or "", to regexp)
    flagIgnorePkg,  \* mainCmd: the value of -ignorepkg
    flagBlank,  \* mainCmd: the value of -blank
    flagAsserts,    \* mainCmd: the value of -asserts
    cpc,        \* mainCmd: "parse", "ignorepkg", "check", "print" or "exit"
    checkErr,   \* mainCmd: what CheckPackages returned to it
    printI,     \* mainCmd: position in e.Errors
    matched,    \* main (one package at a time): the packages the pattern matches
    pkgI,       \* main (one package at a time): position in the matched packages
    exitStatus, \* main (one package at a time): its exitStatus variable
    lpc,        \* main (one package at a time): "loop" or "exit"
    stdout,     \* the lines written to standard output
    stderr,     \* the lines written to standard error
    exitCode    \* the exit status of the process, NoExit while it runs

visitVars == <<chk, node, walked, panicked>>
walkVars == <<decls, sel, currentT, result, fieldI, wpc, wok>>
aggVars == <<args, program, mainpc, loopI, wg, errsMutex, errs, gpc, visitor, astI, appendI, ret>>
cmdVars == <<argv, argI, flagIgnore, flagIgnorePkg, flagBlank, flagAsserts, cpc, checkErr, printI>>
loopVars == <<matched, pkgI, exitStatus, lpc>>
ioVars == <<stdout, stderr, exitCode>>
mainVars == <<cmdVars, loopVars, ioVars>>
vars == <<visitVars, walkVars, aggVars, mainVars>>

(***************************************************************************)
(* Bounds                                                                  *)
(***************************************************************************)
MaxWalk == 1        \* statements one visitor run delivers
MaxPkgs == 2        \* initial packages of a loaded program
LineWidth == 6      \* token positions per source line
LinesPerFile == 2   \* source lines per file

(***************************************************************************)
(* Strings as sequences of character codes                                 *)
(***************************************************************************)
RECURSIVE StrLess(_, _)
StrLess(s, t) ==
    IF t = <<>> THEN FALSE
    ELSE IF s = <<>> THEN TRUE
    ELSE IF s[1] # t[1] THEN s[1] < t[1]
    ELSE StrLess(Tail(s), Tail(t))

IsSpace(ch) == ch \in {9, 10, 11, 12, 13, 32}

RECURSIVE TrimLeft(_)
TrimLeft(s) == IF s # <<>> /\ IsSpace(s[1]) THEN TrimLeft(Tail(s)) ELSE s

RECURSIVE TrimRight(_)
TrimRight(s) ==
    IF s # <<>> /\ IsSpace(s[Len(s)]) THEN TrimRight(SubSeq(s, 1, Len(s) - 1)) ELSE s

TrimSpace(s) == TrimRight(TrimLeft(s))

(***************************************************************************)
(* The file set and the files on disk                                      *)
(***************************************************************************)
FileNames == << <<97>>, <<97, 98>> >>     \* "a", "ab"
FileSize == LinesPerFile * LineWidth
NumFiles == Len(FileNames)

\* token.FileSet.Position: token.Pos -> (Filename, Line, Column)
Position(p) ==
    [Filename |-> FileNames[(p \div FileSize) + 1],
     Line     |-> ((p % FileSize) \div LineWidth) + 1,
     Column   |-> (p % LineWidth) + 1]

\* the raw text of line k of a file: indentation, a letter, trailing tab
RawLine(k) == <<32, 9, 96 + k, 9>>

\* readfile: the lines of the file, or nil (the empty slice) when it cannot
\* be opened.  The first file is readable, the second is not.
readfile(filename) ==
    IF filename = FileNames[1] THEN [k \in 1 .. LinesPerFile |-> RawLine(k)] ELSE <<>>

Unknown == <<63, 63>>                     \* "??"

(***************************************************************************)
(* Typed syntax: objects, types, expressions, statements                   *)
(***************************************************************************)
NoPkg == "<nil>"
PkgP == "p"

Obj(okind, pkg) == [okind |-> okind, pkg |-> pkg]
NilObj == Obj("nil", NoPkg)

Type(tkind, pkg, name, elems) == [tkind |-> tkind, pkg |-> pkg, name |-> name, elems |-> elems]
ErrorT == Type("Named", NoPkg, "error", <<>>)       \* the predeclared error
PErrorT == Type("Named", PkgP, "error", <<>>)       \* a defined type p.error
IntT == Type("Basic", NoPkg, "int", <<>>)
IfaceT == Type("Interface", NoPkg, "", <<>>)        \* interface{}
MyErrorT == Type("Named", PkgP, "MyError", <<>>)    \* a struct type with an Error method
MyPointerErrorT == Type("Pointer", PkgP, "MyPointerError", <<>>)    \* *MyPointerError
Tuple(elems) == Type("Tuple", NoPkg, "", elems)

Fun(ekind, name, obj) == [ekind |-> ekind, Name |-> name, obj |-> obj]
Call(fun, pos, typ) == [ekind |-> "CallExpr", Fun |-> fun, Pos |-> pos, Lparen |-> pos + 1, typ |-> typ]
TypeAssert(pos, hasType) == [ekind |-> "TypeAssertExpr", Pos |-> pos, hasType |-> hasType]
OtherExpr(pos) == [ekind |-> "Other", Pos |-> pos]
Ident(name, pos) == [ekind |-> "Ident", Name |-> name, NamePos |-> pos]
IndexLhs(pos) == [ekind |-> "IndexExpr", Pos |-> pos]


ExprStmt(x) == [kind |-> "ExprStmt", X |-> x]
GoStmt(call) == [kind |-> "GoStmt", Call |-> call]
DeferStmt(call) == [kind |-> "DeferStmt", Call |-> call]
AssignStmt(lhs, rhs) == [kind |-> "AssignStmt", Lhs |-> lhs, Rhs |-> rhs]
NoNode == [kind |-> "none"]

(***************************************************************************)
(* The statements a type-checked program can hand to the visitor.  A       *)
(* statement starts at the beginning of a line; its tokens follow at fixed *)
(* offsets: left-hand targets at +0 and +1, right-hand expressions at +2   *)
(* and +4, the opening parenthesis of a call one after the call's start.   *)
(***************************************************************************)
FunIdF == Fun("Ident", "f", Obj("Func", PkgP))              \* f()
FunSelF == Fun("SelectorExpr", "f", Obj("Func", PkgP))      \* x.f(), p.f()
FunRecoverB == Fun("Ident", "recover", Obj("Builtin", NoPkg))
FunPanicB == Fun("Ident", "panic", Obj("Builtin", NoPkg))
FunRecoverP == Fun("Ident", "recover", Obj("Func", PkgP))   \* a declared func recover
FunUnres == Fun("Ident", "f", NilObj)                       \* no entry in Uses
FunIndex == Fun("IndexExpr", "", NilObj)                    \* m["a"]()
DeclaredFuns == {FunIdF, FunSelF, FunRecoverP, FunUnres, FunIndex}

SingleTypes == {ErrorT, PErrorT, IntT}
PairTypes == {Tuple(<<IntT, ErrorT>>), Tuple(<<IntT, IntT>>)}
NoResult == Tuple(<<>>)

\* results of a type that implements error without being error
CustomErrorCalls(pos) == {Call(FunIdF, pos, t) : t \in {MyErrorT, MyPointerErrorT}}
SingleCalls(pos) ==
    {Call(f, pos, t) : f \in DeclaredFuns, t \in SingleTypes}
        \cup {Call(FunRecoverB, pos, IfaceT)}
        \cup CustomErrorCalls(pos)
PairCalls(pos) ==
    {Call(f, pos, t) : f \in DeclaredFuns, t \in PairTypes}
        \cup {Call(FunIdF, pos, Tuple(<<IntT, MyErrorT>>))}
VoidCalls(pos) ==
    {Call(f, pos, NoResult) : f \in DeclaredFuns} \cup {Call(FunPanicB, pos, NoResult)}
Calls(pos) == SingleCalls(pos) \cup PairCalls(pos) \cup VoidCalls(pos)

LhsAt(pos) == {Ident("_", pos), Ident("v", pos), IndexLhs(pos)}
Lhs1(b) == {<<l>> : l \in LhsAt(b)}
Lhs2(b) == {<<l1, l2>> : l1 \in {Ident("_", b), Ident("v", b)}, l2 \in LhsAt(b + 1)}

\* right-hand expressions of an assignment with two right-hand sides
MultiExprs(pos) ==
    {Call(FunIdF, pos, ErrorT), Call(FunIdF, pos, IntT), Call(FunRecoverB, pos, IfaceT),
     TypeAssert(pos, TRUE), OtherExpr(pos)}

Nodes(b) ==
    {ExprStmt(x) : x \in Calls(b) \cup {OtherExpr(b)}}
    \cup {GoStmt(x) : x \in Calls(b + 1)}
    \cup {DeferStmt(x) : x \in Calls(b + 1)}
    \cup {AssignStmt(l, <<x>>) : l \in Lhs1(b), x \in SingleCalls(b + 2)}
    \cup {AssignStmt(l, <<x>>) : l \in Lhs2(b), x \in PairCalls(b + 2)}
    \cup {AssignStmt(l, <<TypeAssert(b + 2, TRUE)>>) : l \in Lhs1(b) \cup Lhs2(b)}
    \cup {AssignStmt(<<Ident("v", b)>>, <<TypeAssert(b + 2, FALSE)>>)}
    \cup {AssignStmt(l, <<OtherExpr(b + 2)>>) : l \in {<<Ident("v", b)>>, <<Ident("v", b), Ident("_", b + 1)>>}}
    \cup {AssignStmt(l, <<x, y>>) : l \in Lhs2(b), x \in MultiExprs(b + 2), y \in MultiExprs(b + 4)}

\* the k-th statement of a walk starts the k-th line of the file set
StmtBase(k) == (k % (NumFiles * LinesPerFile)) * LineWidth
NodesAt == [k \in 0 .. MaxWalk |-> Nodes(StmtBase(k))]

(***************************************************************************)
(* Configuration: the ignore map (package path, or "" for any package, to  *)
(* regular expression), and the blank and asserts flags.                   *)
(***************************************************************************)
MatchString(re, name) == name \in re
IgnoreKeys == {"", PkgP}
\* ".*": every name the statements use, and the empty name of a callee
\* that has none
MatchAll == {"f", "recover", "panic", ""}
Regexps == {{"f"}, {"recover"}, MatchAll}
IgnoreMaps ==
    {im \in UNION {[D -> Regexps] : D \in SUBSET IgnoreKeys} :
        PkgP \in DOMAIN im => im[PkgP] = {"f"}}

checker(ignore, blank, asserts) ==
    [ignore |-> ignore, blank |-> blank, asserts |-> asserts, lines |-> <<>>, errors |-> <<>>]
Checkers == {checker(im, b, a) : im \in IgnoreMaps, b \in BOOLEAN, a \in BOOLEAN}

(***************************************************************************)
(* checker: exclusion and classification                                   *)
(***************************************************************************)
\* variant: the shape of the callee is not examined
ignoreCall_AnyShape(c, call) ==
    LET fun == call.Fun
    IN  IF "" \in DOMAIN c.ignore /\ MatchString(c.ignore[""], fun.Name) THEN TRUE
        ELSE IF fun.obj.okind # "nil" /\ fun.obj.pkg # NoPkg /\ fun.obj.pkg \in DOMAIN c.ignore
             THEN MatchString(c.ignore[fun.obj.pkg], fun.Name)
        ELSE FALSE

\* variant: only a plain identifier callee is looked up, not a selector
ignoreCall_IdentOnly(c, call) ==
    LET fun == call.Fun
    IN  IF fun.ekind # "Ident" THEN FALSE
        ELSE IF "" \in DOMAIN c.ignore /\ MatchString(c.ignore[""], fun.Name) THEN TRUE
        ELSE IF fun.obj.okind # "nil" /\ fun.obj.pkg # NoPkg /\ fun.obj.pkg \in DOMAIN c.ignore
             THEN MatchString(c.ignore[fun.obj.pkg], fun.Name)
        ELSE FALSE

ignoreCall(c, call) ==
    LET fun == call.Fun
    IN  IF fun.ekind \notin {"Ident", "SelectorExpr"} THEN FALSE
        ELSE IF "" \in DOMAIN c.ignore /\ MatchString(c.ignore[""], fun.Name) THEN TRUE
        ELSE IF fun.obj.okind # "nil" /\ fun.obj.pkg # NoPkg /\ fun.obj.pkg \in DOMAIN c.ignore
             THEN MatchString(c.ignore[fun.obj.pkg], fun.Name)
        ELSE FALSE

\* variant: any type named error, whatever its package
isErrorType_NameOnly(v) == v.name = "error"

isErrorType(v) == v.pkg = NoPkg /\ v.name = "error"

\* variant: nothing is returned for a result that is neither named nor a tuple
errorsByArg_NilDefault(call) ==
    LET t == call.typ
    IN  CASE t.tkind = "Named" -> <<isErrorType(t)>>
          [] t.tkind = "Tuple" ->
                [i \in 1 .. Len(t.elems) |->
                    t.elems[i].tkind = "Named" /\ isErrorType(t.elems[i])]
          [] OTHER -> <<>>

errorsByArg(call) ==
    LET t == call.typ
    IN  CASE t.tkind = "Named" -> <<isErrorType(t)>>
          [] t.tkind = "Tuple" ->
                [i \in 1 .. Len(t.elems) |->
                    t.elems[i].tkind = "Named" /\ isErrorType(t.elems[i])]
          [] OTHER -> <<FALSE>>

\* variant: any identifier named recover
isRecover_ByName(call) == call.Fun.ekind = "Ident" /\ call.Fun.Name = "recover"

isRecover(call) ==
    call.Fun.ekind = "Ident" /\ call.Fun.obj.okind = "Builtin" /\ call.Fun.Name = "recover"

callReturnsError(call) ==
    isRecover(call) \/ \E i \in DOMAIN errorsByArg(call) : errorsByArg(call)[i]

(***************************************************************************)
(* checker.addErrorAtPosition                                              *)
(***************************************************************************)
addErrorAtPosition(c, position) ==
    LET pos == Position(position)
        cached == pos.Filename \in DOMAIN c.lines
        lines == IF cached THEN c.lines[pos.Filename] ELSE readfile(pos.Filename)
        line == IF pos.Line - 1 < Len(lines) THEN TrimSpace(lines[pos.Line]) ELSE Unknown
    IN  [c EXCEPT !.lines = IF cached THEN @ ELSE (pos.Filename :> lines) @@ @,
                  !.errors = Append(@, [pos |-> pos, line |-> line])]

(***************************************************************************)
(* checker.Visit.  Each case yields the positions it reports, in order; an *)
(* out-of-range index into the classification aborts the visit (Panic).    *)
(***************************************************************************)
Panic == -1

RECURSIVE Concat(_)
Concat(ss) == IF ss = <<>> THEN <<>> ELSE ss[1] \o Concat(Tail(ss))

\* variant: a callee without an object is passed over
CheckedCall_SkipUnresolved(c, call) ==
    IF ~ignoreCall(c, call) /\ callReturnsError(call) /\ call.Fun.obj.okind # "nil"
    THEN <<call.Lparen>> ELSE <<>>

CheckedCall(c, call) ==
    IF ~ignoreCall(c, call) /\ callReturnsError(call) THEN <<call.Lparen>> ELSE <<>>

VisitExprStmt(c, stmt) ==
    IF stmt.X.ekind = "CallExpr" THEN CheckedCall(c, stmt.X) ELSE <<>>

VisitGoStmt(c, stmt) == CheckedCall(c, stmt.Call)

\* variant: the deferred call is not looked up in the ignore map
VisitDeferStmt_NoIgnore(c, stmt) ==
    IF callReturnsError(stmt.Call) THEN <<stmt.Call.Lparen>> ELSE <<>>

VisitDeferStmt(c, stmt) == CheckedCall(c, stmt.Call)

\* variant: every target is matched with the first result
VisitAssignCall_FirstSlot(c, stmt) ==
    LET call == stmt.Rhs[1]
        isError == errorsByArg(call)
        at(i) ==
            LET id == stmt.Lhs[i]
            IN  IF id.ekind = "Ident" /\ id.Name = "_" /\ (isRecover(call) \/ isError[1])
                THEN <<id.NamePos>>
                ELSE <<>>
    IN  IF ~c.blank THEN <<>>
        ELSE IF ignoreCall(c, call) THEN <<>>
        ELSE Concat([i \in 1 .. Len(stmt.Lhs) |-> at(i)])

\* single right-hand side, a call
VisitAssignCall(c, stmt) ==
    LET call == stmt.Rhs[1]
        isError == errorsByArg(call)
        at(i) ==
            LET id == stmt.Lhs[i]
            IN  IF id.ekind = "Ident" /\ id.Name = "_"
                THEN IF isRecover(call) THEN <<id.NamePos>>
                     ELSE IF i > Len(isError) THEN <<Panic>>
                     ELSE IF isError[i] THEN <<id.NamePos>>
                     ELSE <<>>
                ELSE <<>>
    IN  IF ~c.blank THEN <<>>
        ELSE IF ignoreCall(c, call) THEN <<>>
        ELSE Concat([i \in 1 .. Len(stmt.Lhs) |-> at(i)])

\* variant: an unread assertion is reported only without blank checking
VisitAssignAssert_NotBlank(c, stmt) ==
    LET assert == stmt.Rhs[1]
    IN  IF ~c.asserts THEN <<>>
        ELSE IF ~assert.hasType THEN <<>>
        ELSE IF Len(stmt.Lhs) < 2 THEN (IF c.blank THEN <<>> ELSE <<assert.Pos>>)
        ELSE IF stmt.Lhs[2].ekind = "Ident" /\ c.blank /\ stmt.Lhs[2].Name = "_"
             THEN <<stmt.Lhs[2].NamePos>>
        ELSE <<>>

\* variant: a discarded ok is reported whatever the blank flag
VisitAssignAssert_AnyBlank(c, stmt) ==
    LET assert == stmt.Rhs[1]
    IN  IF ~c.asserts THEN <<>>
        ELSE IF ~assert.hasType THEN <<>>
        ELSE IF Len(stmt.Lhs) < 2 THEN <<assert.Pos>>
        ELSE IF stmt.Lhs[2].ekind = "Ident" /\ stmt.Lhs[2].Name = "_"
             THEN <<stmt.Lhs[2].NamePos>>
        ELSE <<>>

\* single right-hand side, a type assertion
VisitAssignAssert(c, stmt) ==
    LET assert == stmt.Rhs[1]
    IN  IF ~c.asserts THEN <<>>
        ELSE IF ~assert.hasType THEN <<>>
        ELSE IF Len(stmt.Lhs) < 2 THEN <<assert.Pos>>
        ELSE IF stmt.Lhs[2].ekind = "Ident" /\ c.blank /\ stmt.Lhs[2].Name = "_"
             THEN <<stmt.Lhs[2].NamePos>>
        ELSE <<>>

\* variant: an assertion is reported only when its target is the blank identifier
VisitAssignMulti_BlankOnly(c, stmt) ==
    LET at(i) ==
            LET id == stmt.Lhs[i]
                rhs == stmt.Rhs[i]
            IN  IF id.ekind # "Ident" THEN <<>>
                ELSE IF rhs.ekind = "CallExpr"
                     THEN IF ~c.blank THEN <<>>
                          ELSE IF ignoreCall(c, rhs) THEN <<>>
                          ELSE IF id.Name = "_" /\ callReturnsError(rhs) THEN <<id.NamePos>>
                          ELSE <<>>
                ELSE IF rhs.ekind = "TypeAssertExpr"
                     THEN IF ~c.asserts THEN <<>>
                          ELSE IF ~rhs.hasType THEN <<>>
                          ELSE IF id.Name = "_" THEN <<id.NamePos>>
                          ELSE <<>>
                ELSE <<>>
    IN  Concat([i \in 1 .. Len(stmt.Lhs) |-> at(i)])

\* several right-hand sides
VisitAssignMulti(c, stmt) ==
    LET at(i) ==
            LET id == stmt.Lhs[i]
                rhs == stmt.Rhs[i]
            IN  IF id.ekind # "Ident" THEN <<>>
                ELSE IF rhs.ekind = "CallExpr"
                     THEN IF ~c.blank THEN <<>>
                          ELSE IF ignoreCall(c, rhs) THEN <<>>
                          ELSE IF id.Name = "_" /\ callReturnsError(rhs) THEN <<id.NamePos>>
                          ELSE <<>>
                ELSE IF rhs.ekind = "TypeAssertExpr"
                     THEN IF ~c.asserts THEN <<>>
                          ELSE IF ~rhs.hasType THEN <<>>
                          ELSE <<id.NamePos>>
                ELSE <<>>
    IN  Concat([i \in 1 .. Len(stmt.Lhs) |-> at(i)])

VisitEvents(c, n) ==
    CASE n.kind = "ExprStmt" -> VisitExprStmt(c, n)
      [] n.kind = "GoStmt" -> VisitGoStmt(c, n)
      [] n.kind = "DeferStmt" -> VisitDeferStmt(c, n)
      [] n.kind = "AssignStmt" ->
            IF Len(n.Rhs) = 1
            THEN IF n.Rhs[1].ekind = "CallExpr" THEN VisitAssignCall(c, n)
                 ELSE IF n.Rhs[1].ekind = "TypeAssertExpr" THEN VisitAssignAssert(c, n)
                 ELSE <<>>
            ELSE VisitAssignMulti(c, n)
      [] OTHER -> <<>>

RECURSIVE Report(_, _)
Report(c, evs) ==
    IF evs = <<>> THEN [chk |-> c, panic |-> FALSE]
    ELSE IF evs[1] = Panic THEN [chk |-> c, panic |-> TRUE]
    ELSE CHOOSE r \in {Report(next, rest) : next \in {addErrorAtPosition(c, evs[1])},
                                             rest \in {Tail(evs)}} : TRUE

Visit(c, n) == CHOOSE r \in {Report(c, evs) : evs \in {VisitEvents(c, n)}} : TRUE

(***************************************************************************)
(* The visitor run: one checker, ast.Walk handing it statements            *)
(***************************************************************************)
\* the parts of the state a specification does not use stay as they are here
VisitIdle ==
    /\ chk = checker(<<>>, FALSE, FALSE)
    /\ node = NoNode
    /\ walked = 0
    /\ panicked = FALSE

WalkIdle ==
    /\ decls = <<>>
    /\ sel = <<>>
    /\ currentT = <<>>
    /\ result = <<>>
    /\ fieldI = 0
    /\ wpc = "idle"
    /\ wok = FALSE

AggIdle ==
    /\ args = <<>>
    /\ program = <<>>
    /\ mainpc = "idle"
    /\ loopI = 0
    /\ wg = 0
    /\ errsMutex = 0
    /\ errs = <<>>
    /\ gpc = <<>>
    /\ visitor = <<>>
    /\ astI = <<>>
    /\ appendI = <<>>
    /\ ret = <<>>

NoExit == -1

CmdIdle ==
    /\ argv = <<>>
    /\ argI = 0
    /\ flagIgnore = <<>>
    /\ flagIgnorePkg = <<>>
    /\ flagBlank = FALSE
    /\ flagAsserts = FALSE
    /\ cpc = "idle"
    /\ checkErr = <<>>
    /\ printI = 0

LoopIdle ==
    /\ matched = <<>>
    /\ pkgI = 0
    /\ exitStatus = 0
    /\ lpc = "idle"

IoIdle ==
    /\ stdout = <<>>
    /\ stderr = <<>>
    /\ exitCode = NoExit

MainIdle == CmdIdle /\ LoopIdle /\ IoIdle

InitVisit ==
    /\ chk \in Checkers
    /\ node = NoNode
    /\ walked = 0
    /\ panicked = FALSE
    /\ WalkIdle
    /\ AggIdle
    /\ MainIdle

VisitNode ==
    /\ ~panicked
    /\ walked < MaxWalk
    /\ \E n \in NodesAt[walked] :
          /\ node' = n
          /\ chk' = Visit(chk, n).chk
          /\ panicked' = Visit(chk, n).panic
    /\ walked' = walked + 1
    /\ UNCHANGED <<walkVars, aggVars, mainVars>>

NextVisit == VisitNode

SpecVisit == InitVisit /\ [][NextVisit]_vars

(***************************************************************************)
(* Types of the walker.  A type is named by an identifier; the program     *)
(* declares                                                                *)
(*     type A interface { <A's embeddeds> }                                *)
(*     type M interface { Z(); <M's embeddeds> }                           *)
(*     type B interface { X() }         type C interface { Y() }           *)
(*     type U = interface { X() }       (U is not a defined type)          *)
(*     type S struct { n int; A }       type S3 struct { *S }              *)
(*     type T struct{}; func (T) X()    type S2 struct { T }               *)
(* and decls gives the embedded lists of A and M.                          *)
(***************************************************************************)
Ty(k, n) == [k |-> k, n |-> n]
Nil == Ty("nil", "")
InvalidT == Ty("invalid", "")               \* types.Typ[types.Invalid]
Named(n) == Ty("named", n)
PointerTo(n) == Ty("pointer", n)            \* *n, n a defined type
InterfaceLit(n) == Ty("interface", n)       \* the interface literal declared as n
StructLit(n) == Ty("struct", n)             \* the struct literal declared as n
TA == Named("A")
TM == Named("M")
TB == Named("B")
TC == Named("C")
TU == InterfaceLit("U")                     \* the alias U denotes the literal itself
TS == Named("S")
DefinedInterfaces == {TA, TM, TB, TC}

maybeDereference(t) == IF t.k = "pointer" THEN Named(t.n) ELSE t

\* Named.Underlying: the interface or struct literal of the declaration
maybeUnname(t) ==
    IF t.k = "named"
    THEN (IF t \in DefinedInterfaces THEN InterfaceLit(t.n) ELSE StructLit(t.n))
    ELSE t

\* Struct.Field(i).Type(), fields counted from 0
Field(s, i) ==
    CASE s.n = "S" -> <<Ty("basic", "int"), TA>>[i + 1]
      [] s.n = "S3" -> <<PointerTo("S")>>[i + 1]
      [] s.n = "S2" -> <<Named("T")>>[i + 1]

\* Interface.NumExplicitMethods / ExplicitMethod
ExplicitMethods(it) ==
    CASE it.n \in {"U", "B"} -> {"X"}
      [] it.n = "C" -> {"Y"}
      [] it.n = "M" -> {"Z"}
      [] OTHER -> {}

\* the embedded types of an interface literal, in declaration order
Embeddeds(d, it) ==
    CASE it.n = "A" -> d.A
      [] it.n = "M" -> d.M
      [] OTHER -> <<>>
NumEmbeddeds(d, it) == Len(Embeddeds(d, it))

\* Interface.Embedded(i), i from 0: the i-th embedded type if it is a
\* defined type, nil otherwise
Embedded(d, it, i) ==
    IF Embeddeds(d, it)[i + 1].k = "named" THEN Embeddeds(d, it)[i + 1] ELSE Nil

\* Interface.NumMethods / Method: explicit and inherited methods
RECURSIVE Methods(_, _)
Methods(d, it) ==
    ExplicitMethods(it)
        \cup UNION {Methods(d, maybeUnname(Embeddeds(d, it)[k])) : k \in 1 .. NumEmbeddeds(d, it)}

explicitlyDefinesMethod(it, fn) == fn \in ExplicitMethods(it)
definesMethod(d, it, fn) == fn \in Methods(d, it)

Decls ==
    {[A |-> a, M |-> m] :
        a \in {<<TM>>, <<TC, TM>>, <<TB>>, <<TM, TB>>, <<TU>>, <<TC, TU>>},
        m \in {<<TB>>, <<TC, TB>>, <<TU>>}}

\* the selections the type checker records for method calls and field reads
Selection(isFunc, fn, recv, index) == [isFunc |-> isFunc, fn |-> fn, Recv |-> recv, Index |-> index]
Selections(d) ==
    UNION {{Selection(TRUE, fn, t, <<0>>) : fn \in Methods(d, maybeUnname(t))} :
            t \in DefinedInterfaces \cup {TU}}
    \cup {Selection(TRUE, fn, t, <<1, 0>>) :
            t \in {TS, PointerTo("S")}, fn \in Methods(d, maybeUnname(TA))}
    \cup {Selection(TRUE, fn, Named("S3"), <<0, 1, 0>>) : fn \in Methods(d, maybeUnname(TA))}
    \cup {Selection(TRUE, "X", Named("T"), <<0>>), Selection(TRUE, "X", Named("S2"), <<0, 0>>),
          Selection(TRUE, "X", InvalidT, <<0>>), Selection(FALSE, "A", TS, <<1>>)}

(***************************************************************************)
(* walkThroughEmbeddedInterfaces, one action per step                      *)
(***************************************************************************)
InitWalk ==
    /\ decls \in Decls
    /\ sel \in Selections(decls)
    /\ currentT = Nil
    /\ result = <<>>
    /\ fieldI = 0
    /\ wpc = "enter"
    /\ wok = FALSE
    /\ VisitIdle
    /\ AggIdle
    /\ MainIdle

WalkReturn(chain, ok) ==
    /\ wpc' = "returned"
    /\ result' = chain
    /\ wok' = ok

\* lines 17-32: the two early returns, then the receiver starts the chain
WalkEnter ==
    /\ wpc = "enter"
    /\ IF ~sel.isFunc \/ sel.Recv = InvalidT
       THEN WalkReturn(<<>>, FALSE) /\ UNCHANGED <<currentT, fieldI>>
       ELSE /\ currentT' = sel.Recv
            /\ result' = <<sel.Recv>>
            /\ fieldI' = 1
            /\ wpc' = "fields"
            /\ wok' = wok
    /\ UNCHANGED <<decls, sel, visitVars, aggVars, mainVars>>

\* lines 33-46: one iteration of the loop over the embedded fields
WalkField ==
    /\ wpc = "fields"
    /\ fieldI <= Len(sel.Index) - 1
    /\ LET s == maybeUnname(maybeDereference(currentT))
       IN  IF s.k # "struct"
           THEN wpc' = "panic" /\ UNCHANGED <<currentT, result, fieldI>>
           ELSE LET nextT == Field(s, sel.Index[fieldI])
                IN  /\ result' = Append(result, nextT)
                    /\ currentT' = nextT
                    /\ fieldI' = fieldI + 1
                    /\ wpc' = wpc
    /\ UNCHANGED <<decls, sel, wok, visitVars, aggVars, mainVars>>

\* lines 55-58: the type reached must be an interface
WalkReach ==
    /\ wpc = "fields"
    /\ fieldI > Len(sel.Index) - 1
    /\ IF maybeUnname(currentT).k # "interface"
       THEN WalkReturn(<<>>, FALSE)
       ELSE wpc' = "loop" /\ UNCHANGED <<result, wok>>
    /\ UNCHANGED <<decls, sel, currentT, fieldI, visitVars, aggVars, mainVars>>

\* variant: the scan keeps the last embedded interface that qualifies
FirstStop_Last(d, it, fn) ==
    LET stops == {i \in 0 .. NumEmbeddeds(d, it) - 1 :
                    \/ Embedded(d, it, i) = Nil
                    \/ definesMethod(d, maybeUnname(Embedded(d, it, i)), fn)}
    IN  IF stops = {} THEN -1 ELSE CHOOSE i \in stops : \A j \in stops : i >= j

\* the first embedded interface at which the scan of lines 69-76 stops:
\* either it cannot be unnamed (nil) or it defines the method; 0 if none
FirstStop(d, it, fn) ==
    LET stops == {i \in 0 .. NumEmbeddeds(d, it) - 1 :
                    \/ Embedded(d, it, i) = Nil
                    \/ definesMethod(d, maybeUnname(Embedded(d, it, i)), fn)}
    IN  IF stops = {} THEN -1 ELSE CHOOSE i \in stops : \A j \in stops : i <= j

\* lines 60-77: one iteration of the outer loop
WalkLoop ==
    /\ wpc = "loop"
    /\ LET interfaceT == maybeUnname(currentT)
           i == FirstStop(decls, interfaceT, sel.fn)
       IN  IF explicitlyDefinesMethod(interfaceT, sel.fn)
           THEN WalkReturn(result, TRUE) /\ UNCHANGED currentT
           ELSE IF i = -1
           THEN UNCHANGED <<currentT, result, wpc, wok>>
           ELSE IF Embedded(decls, interfaceT, i) = Nil
           THEN wpc' = "panic" /\ UNCHANGED <<currentT, result, wok>>
           ELSE /\ result' = Append(result, Embedded(decls, interfaceT, i))
                /\ currentT' = Embedded(decls, interfaceT, i)
                /\ UNCHANGED <<wpc, wok>>
    /\ UNCHANGED <<decls, sel, fieldI, visitVars, aggVars, mainVars>>

NextWalk == WalkEnter \/ WalkField \/ WalkReach \/ WalkLoop

SpecWalk == InitWalk /\ [][NextWalk]_vars

\* an exclusion rule keyed on a type excludes the call when that type is
\* on the chain
chainExcludes(chain, rule) == \E k \in DOMAIN chain : chain[k] = rule

(***************************************************************************)
(* CheckPackages: load, one goroutine per initial package, merge under the *)
(* mutex, wait, sort, return                                               *)
(***************************************************************************)
\* variant: the file names are not compared
Less_NoFilename(ei, ej) ==
    LET pi == ei.pos
        pj == ej.pos
    IN  IF pi.Line # pj.Line THEN pi.Line < pj.Line
        ELSE IF pi.Column # pj.Column THEN pi.Column < pj.Column
        ELSE StrLess(ei.line, ej.line)

\* byName.Less on two uncheckedError values
Less(ei, ej) ==
    LET pi == ei.pos
        pj == ej.pos
    IN  IF pi.Filename # pj.Filename THEN StrLess(pi.Filename, pj.Filename)
        ELSE IF pi.Line # pj.Line THEN pi.Line < pj.Line
        ELSE IF pi.Column # pj.Column THEN pi.Column < pj.Column
        ELSE StrLess(ei.line, ej.line)

\* sort.Sort(byName{u}): the elements, ordered by Less
RECURSIVE Insert(_, _)
Insert(x, sorted) ==
    IF sorted = <<>> THEN <<x>>
    ELSE IF Less(x, sorted[1]) THEN <<x>> \o sorted
    ELSE <<sorted[1]>> \o Insert(x, Tail(sorted))

RECURSIVE Sort(_)
Sort(es) == IF es = <<>> THEN <<>> ELSE Insert(es[1], Sort(Tail(es)))

\* the packages a program is made of.  PkgP1 and PkgP1Test are two variants
\* of one package that both contain the statement of the second line of
\* the first file; "unsafe" is the pseudo-package the loop skips.
Package(path, nodes) == [Path |-> path, Nodes |-> nodes]
StmtF(k) == ExprStmt(Call(FunIdF, StmtBase(k), ErrorT))                         \* f()
StmtGoF(k) == GoStmt(Call(FunSelF, StmtBase(k) + 1, ErrorT))                    \* go x.f()
StmtBlank(k) ==                                                                 \* v, _ := f()
    AssignStmt(<<Ident("v", StmtBase(k)), Ident("_", StmtBase(k) + 1)>>,
               <<Call(FunIdF, StmtBase(k) + 2, Tuple(<<IntT, ErrorT>>))>>)
StmtBlanks(k) ==                                                                \* _, _ = f(), f()
    AssignStmt(<<Ident("_", StmtBase(k)), Ident("_", StmtBase(k) + 1)>>,
               <<Call(FunIdF, StmtBase(k) + 2, ErrorT), Call(FunIdF, StmtBase(k) + 4, ErrorT)>>)
StmtOther(k) == ExprStmt(OtherExpr(StmtBase(k)))
PkgP1 == Package("p", <<StmtGoF(2), StmtF(1)>>)
PkgP1Test == Package("p [p.test]", <<StmtF(1), StmtBlanks(3)>>)
PkgQ == Package("q", <<StmtBlank(0)>>)
PkgR == Package("r", <<StmtOther(3)>>)
PkgUnsafe == Package("unsafe", <<>>)
Packages == {PkgP1, PkgP1Test, PkgQ, PkgR, PkgUnsafe}

\* what the loader yields: the initial packages, or an error (the packages
\* are then those the arguments name, which were not loaded)
Loaded(pkgs) == [err |-> "", InitialPackages |-> pkgs]
LoadError(err, pkgs) == [err |-> err, InitialPackages |-> pkgs]
PackageLists ==
    {q \in UNION {[1 .. n -> Packages] : n \in 1 .. MaxPkgs} :
        \A i, j \in DOMAIN q : i # j => q[i] # q[j]}
Programs ==
    {Loaded(pkgs) : pkgs \in PackageLists}
    \cup {LoadError(e, pkgs) :
            e \in {"could not parse arguments", "unhandled extra arguments",
                   "could not type check"},
            pkgs \in PackageLists}

Workers == DOMAIN program.InitialPackages
NilError == [kind |-> "nil"]
UncheckedErrors(es) == [kind |-> "UncheckedErrors", Errors |-> es]
Errorf(msg) == [kind |-> "error", Errors |-> <<>>, msg |-> msg]

InitAgg ==
    /\ args \in {[ignore |-> <<>>, blank |-> b, asserts |-> FALSE] : b \in BOOLEAN}
    /\ program \in Programs
    /\ mainpc = "load"
    /\ loopI = 1
    /\ wg = 0
    /\ errsMutex = 0
    /\ errs = <<>>
    /\ gpc = [w \in Workers |-> "none"]
    /\ visitor = [w \in Workers |-> checker(args.ignore, args.blank, args.asserts)]
    /\ astI = [w \in Workers |-> 1]
    /\ appendI = [w \in Workers |-> 1]
    /\ ret = NilError
    /\ VisitIdle
    /\ WalkIdle
    /\ MainIdle

\* variant: the loader's error is dropped
MainLoad_Continue ==
    /\ mainpc = "load"
    /\ mainpc' = "spawn"
    /\ UNCHANGED <<args, program, loopI, wg, errsMutex, errs, gpc, visitor, astI, ret>>
    /\ UNCHANGED <<appendI, visitVars, walkVars, mainVars>>

\* lines 297-318: the loader; its failure is returned at once
MainLoad ==
    /\ mainpc = "load"
    /\ IF program.err # ""
       THEN mainpc' = "done" /\ ret' = Errorf(program.err)
       ELSE mainpc' = "spawn" /\ ret' = ret
    /\ UNCHANGED <<args, program, loopI, wg, errsMutex, errs, gpc, visitor, astI>>
    /\ UNCHANGED <<appendI, visitVars, walkVars, mainVars>>

\* lines 325-348: one iteration of the loop over the initial packages
MainSpawn ==
    /\ mainpc = "spawn"
    /\ loopI <= Len(program.InitialPackages)
    /\ IF program.InitialPackages[loopI].Path = "unsafe"
       THEN UNCHANGED <<wg, gpc>>
       ELSE /\ wg' = wg + 1
            /\ gpc' = [gpc EXCEPT ![loopI] = "walk"]
    /\ loopI' = loopI + 1
    /\ UNCHANGED <<args, program, mainpc, errsMutex, errs, visitor, astI, ret>>
    /\ UNCHANGED <<appendI, visitVars, walkVars, mainVars>>

MainSpawned ==
    /\ mainpc = "spawn"
    /\ loopI > Len(program.InitialPackages)
    /\ mainpc' = "wait"
    /\ UNCHANGED <<args, program, loopI, wg, errsMutex, errs, gpc, visitor, astI, ret>>
    /\ UNCHANGED <<appendI, visitVars, walkVars, mainVars>>

\* line 350: wg.Wait()
MainWait ==
    /\ mainpc = "wait"
    /\ wg = 0
    /\ mainpc' = "return"
    /\ UNCHANGED <<args, program, loopI, wg, errsMutex, errs, gpc, visitor, astI, ret>>
    /\ UNCHANGED <<appendI, visitVars, walkVars, mainVars>>

\* variant: the merged list is returned in the order of arrival
MainReturn_Unsorted ==
    /\ mainpc = "return"
    /\ ret' = IF Len(errs) > 0 THEN UncheckedErrors(errs) ELSE NilError
    /\ mainpc' = "done"
    /\ UNCHANGED <<args, program, loopI, wg, errsMutex, errs, gpc, visitor, astI>>
    /\ UNCHANGED <<appendI, visitVars, walkVars, mainVars>>

\* lines 352-360
MainReturn ==
    /\ mainpc = "return"
    /\ ret' = IF Len(errs) > 0 THEN UncheckedErrors(Sort(errs)) ELSE NilError
    /\ mainpc' = "done"
    /\ UNCHANGED <<args, program, loopI, wg, errsMutex, errs, gpc, visitor, astI>>
    /\ UNCHANGED <<appendI, visitVars, walkVars, mainVars>>

\* lines 337-339: ast.Walk hands the next statement to the worker's checker
WorkerVisit(w) ==
    /\ gpc[w] = "walk"
    /\ mainpc # "crashed"
    /\ astI[w] <= Len(program.InitialPackages[w].Nodes)
    /\ \E r \in {Visit(visitor[w], program.InitialPackages[w].Nodes[astI[w]])} :
          /\ visitor' = [visitor EXCEPT ![w] = r.chk]
          /\ mainpc' = IF r.panic THEN "crashed" ELSE mainpc
    /\ astI' = [astI EXCEPT ![w] = @ + 1]
    /\ UNCHANGED <<args, program, loopI, wg, errsMutex, errs, gpc, ret>>
    /\ UNCHANGED <<appendI, visitVars, walkVars, mainVars>>

\* line 341: after the walk, merge only if there is something to merge
WorkerWalked(w) ==
    /\ gpc[w] = "walk"
    /\ mainpc # "crashed"
    /\ astI[w] > Len(program.InitialPackages[w].Nodes)
    /\ gpc' = [gpc EXCEPT ![w] = IF Len(visitor[w].errors) > 0 THEN "lock" ELSE "done"]
    /\ UNCHANGED <<args, program, mainpc, loopI, wg, errsMutex, errs, visitor, astI, ret>>
    /\ UNCHANGED <<appendI, visitVars, walkVars, mainVars>>

\* variant: Lock returns although the mutex is held
WorkerLock_NoWait(w) ==
    /\ gpc[w] = "lock"
    /\ errsMutex' = w
    /\ gpc' = [gpc EXCEPT ![w] = "append"]
    /\ UNCHANGED <<args, program, mainpc, loopI, wg, errs, visitor, astI, ret>>
    /\ UNCHANGED <<appendI, visitVars, walkVars, mainVars>>

\* line 342: errsMutex.Lock()
WorkerLock(w) ==
    /\ gpc[w] = "lock"
    /\ errsMutex = 0
    /\ errsMutex' = w
    /\ gpc' = [gpc EXCEPT ![w] = "append"]
    /\ UNCHANGED <<args, program, mainpc, loopI, wg, errs, visitor, astI, ret>>
    /\ UNCHANGED <<appendI, visitVars, walkVars, mainVars>>

\* variant: the worker stores its own batch over the list it found
WorkerAppend_Overwrite(w) ==
    /\ gpc[w] = "append"
    /\ errs' = SubSeq(visitor[w].errors, 1, appendI[w])
    /\ appendI' = [appendI EXCEPT ![w] = @ + 1]
    /\ gpc' = [gpc EXCEPT ![w] = IF appendI[w] = Len(visitor[w].errors) THEN "unlock" ELSE "append"]
    /\ UNCHANGED <<args, program, mainpc, loopI, wg, errsMutex, visitor, astI, ret>>
    /\ UNCHANGED <<visitVars, walkVars, mainVars>>

\* line 345: errs = append(errs, visitor.errors...), which copies the
\* elements of the batch behind the list one after the other
WorkerAppend(w) ==
    /\ gpc[w] = "append"
    /\ errs' = Append(errs, visitor[w].errors[appendI[w]])
    /\ appendI' = [appendI EXCEPT ![w] = @ + 1]
    /\ gpc' = [gpc EXCEPT ![w] = IF appendI[w] = Len(visitor[w].errors) THEN "unlock" ELSE "append"]
    /\ UNCHANGED <<args, program, mainpc, loopI, wg, errsMutex, visitor, astI, ret>>
    /\ UNCHANGED <<visitVars, walkVars, mainVars>>

\* variant: the worker leaves without unlocking
WorkerUnlock_Keep(w) ==
    /\ gpc[w] = "unlock"
    /\ gpc' = [gpc EXCEPT ![w] = "done"]
    /\ UNCHANGED <<args, program, mainpc, loopI, wg, errsMutex, errs, visitor, astI, ret>>
    /\ UNCHANGED <<appendI, visitVars, walkVars, mainVars>>

\* line 343: the deferred errsMutex.Unlock()
WorkerUnlock(w) ==
    /\ gpc[w] = "unlock"
    /\ errsMutex' = 0
    /\ gpc' = [gpc EXCEPT ![w] = "done"]
    /\ UNCHANGED <<args, program, mainpc, loopI, wg, errs, visitor, astI, ret>>
    /\ UNCHANGED <<appendI, visitVars, walkVars, mainVars>>

\* line 333: the deferred wg.Done()
WorkerDone(w) ==
    /\ gpc[w] = "done"
    /\ wg' = wg - 1
    /\ gpc' = [gpc EXCEPT ![w] = "exited"]
    /\ UNCHANGED <<args, program, mainpc, loopI, errsMutex, errs, visitor, astI, ret>>
    /\ UNCHANGED <<appendI, visitVars, walkVars, mainVars>>

WorkerVisitStep == \E w \in Workers : WorkerVisit(w)
WorkerWalkedStep == \E w \in Workers : WorkerWalked(w)
WorkerLockStep == \E w \in Workers : WorkerLock(w)
WorkerAppendStep == \E w \in Workers : WorkerAppend(w)
WorkerUnlockStep == \E w \in Workers : WorkerUnlock(w)
WorkerDoneStep == \E w \in Workers : WorkerDone(w)

NextAgg ==
    \/ MainLoad
    \/ MainSpawn
    \/ MainSpawned
    \/ MainWait
    \/ MainReturn
    \/ WorkerVisitStep
    \/ WorkerWalkedStep
    \/ WorkerLockStep
    \/ WorkerAppendStep
    \/ WorkerUnlockStep
    \/ WorkerDoneStep

SpecAgg == InitAgg /\ [][NextAgg]_vars

\* the Go scheduler: the calling goroutine and every started goroutine
\* that can run eventually runs
MainStep == MainLoad \/ MainSpawn \/ MainSpawned \/ MainWait \/ MainReturn
GoroutineStep(w) ==
    /\ w \in Workers
    /\ \/ WorkerVisit(w) \/ WorkerWalked(w) \/ WorkerLock(w)
       \/ WorkerAppend(w) \/ WorkerUnlock(w) \/ WorkerDone(w)
SpecAggFair ==
    /\ SpecAgg
    /\ WF_vars(MainStep)
    /\ \A w \in 1 .. MaxPkgs : WF_vars(GoroutineStep(w))

(***************************************************************************)
(* Vocabulary of the properties of the visitor                             *)
(***************************************************************************)
Stepped == walked' = walked + 1

\* the diagnostics the step has added to the checker
Emitted == SubSeq(chk'.errors, Len(chk.errors) + 1, Len(chk'.errors))
EmittedAt(p) == Cardinality({k \in DOMAIN Emitted : Emitted[k].pos = Position(p)})

\* the call is matched by an exclusion rule: the unqualified regex, or the
\* regex of the package that declares the callee
HasIdent(call) == call.Fun.ekind \in {"Ident", "SelectorExpr"}
UnqualifiedMatch(c, name) == "" \in DOMAIN c.ignore /\ name \in c.ignore[""]
QualifiedMatch(c, call) ==
    /\ call.Fun.obj.okind # "nil"
    /\ call.Fun.obj.pkg # NoPkg
    /\ call.Fun.obj.pkg \in DOMAIN c.ignore
    /\ call.Fun.Name \in c.ignore[call.Fun.obj.pkg]
Matched(c, call) ==
    HasIdent(call) /\ (UnqualifiedMatch(c, call.Fun.Name) \/ QualifiedMatch(c, call))

IsRecoverBuiltin(call) == call.Fun = FunRecoverB
ResultTypes(call) == IF call.typ.tkind = "Tuple" THEN call.typ.elems ELSE <<call.typ>>
ZeroErrors(call) == \A i \in DOMAIN ResultTypes(call) : ResultTypes(call)[i] # ErrorT
SomeSlotTrue(call) == \E i \in DOMAIN errorsByArg(call) : errorsByArg(call)[i]
FailureProducing(call) == SomeSlotTrue(call) \/ IsRecoverBuiltin(call)

IsCallStmt(n) ==
    \/ n.kind = "ExprStmt" /\ n.X.ekind = "CallExpr"
    \/ n.kind \in {"GoStmt", "DeferStmt"}
StmtCall(n) == IF n.kind = "ExprStmt" THEN n.X ELSE n.Call

IsBlank(l) == l.ekind = "Ident" /\ l.Name = "_"
LhsPos(l) == IF l.ekind = "Ident" THEN l.NamePos ELSE l.Pos
SingleRhs(n, ekind) == n.kind = "AssignStmt" /\ Len(n.Rhs) = 1 /\ n.Rhs[1].ekind = ekind

\* target i of an assignment is matched with a call: the only right-hand
\* call (result slot i), or the call at position i (its only result)
PairedWithCall(n, i) ==
    IF Len(n.Rhs) = 1 THEN n.Rhs[1].ekind = "CallExpr" ELSE n.Rhs[i].ekind = "CallExpr"
PairedCall(n, i) == IF Len(n.Rhs) = 1 THEN n.Rhs[1] ELSE n.Rhs[i]
PairedResult(n, i) ==
    IF Len(n.Rhs) = 1 THEN ResultTypes(n.Rhs[1])[i] ELSE ResultTypes(n.Rhs[i])[1]

\* every call of a statement, with the positions a diagnostic for it can have
CallTargets(n) ==
    IF IsCallStmt(n) THEN {[call |-> StmtCall(n), at |-> {StmtCall(n).Lparen}]}
    ELSE IF n.kind = "AssignStmt"
    THEN {[call |-> PairedCall(n, i),
           at |-> {PairedCall(n, i).Lparen}
                    \cup (IF Len(n.Rhs) = 1 THEN {LhsPos(n.Lhs[j]) : j \in DOMAIN n.Lhs}
                          ELSE {LhsPos(n.Lhs[i])})] :
            i \in {j \in DOMAIN n.Lhs : PairedWithCall(n, j)}}
    ELSE {}

(***************************************************************************)
(* C1: for a call that is a bare expression statement, the call of a go    *)
(* statement or the call of a defer statement, the visitor emits exactly   *)
(* one diagnostic, at the call's opening parenthesis, if and only if the   *)
(* call is not excluded and is failure-producing (a classification slot is *)
(* true, or it is the recover built-in); the outcome does not depend on    *)
(* which of the three statement forms encloses the call.                   *)
(***************************************************************************)
C1_UncheckedCall ==
    [][(Stepped /\ IsCallStmt(node')) =>
        LET call == StmtCall(node')
        IN  /\ ~panicked'
            /\ IF ~Matched(chk, call) /\ FailureProducing(call)
               THEN Len(Emitted) = 1 /\ Emitted[1].pos = Position(call.Lparen)
               ELSE Emitted = <<>>]_vars

C1_Witness ==
    /\ node.kind = "GoStmt"
    /\ ~Matched(chk, node.Call)
    /\ SomeSlotTrue(node.Call)
    /\ Len(chk.errors) = walked
    /\ walked > 0

(***************************************************************************)
(* C2: a call matched by an exclusion rule (unqualified regex or           *)
(* package-qualified regex) gets no diagnostic of any kind in any          *)
(* statement form, even when it returns error and blank checking is on.    *)
(***************************************************************************)
C2_ExcludedSilent ==
    [][Stepped =>
        \A t \in CallTargets(node') :
            Matched(chk, t.call) => \A p \in t.at : EmittedAt(p) = 0]_vars

C2_Witness ==
    /\ SingleRhs(node, "CallExpr")
    /\ chk.blank
    /\ Matched(chk, node.Rhs[1])
    /\ node.Rhs[1].Fun.ekind = "SelectorExpr"
    /\ ~UnqualifiedMatch(chk, node.Rhs[1].Fun.Name)
    /\ \E i \in DOMAIN node.Lhs : IsBlank(node.Lhs[i]) /\ PairedResult(node, i) = ErrorT
    /\ chk.errors = <<>>

(***************************************************************************)
(* C3 (as stated): a call whose result tuple contains no occurrence of the *)
(* error type never gets a diagnostic, whatever the statement form and the *)
(* exclusion configuration.                                                *)
(***************************************************************************)
C3_Original ==
    [][Stepped =>
        \A t \in CallTargets(node') :
            ZeroErrors(t.call) => \A p \in t.at : EmittedAt(p) = 0]_vars

(***************************************************************************)
(* C3 (amended): a call whose result tuple contains no occurrence of the   *)
(* error type and that is not a call of the recover built-in never gets a  *)
(* diagnostic, whatever the statement form and exclusion configuration.    *)
(***************************************************************************)
C3_NoErrorNoDiagnostic ==
    [][Stepped =>
        \A t \in CallTargets(node') :
            (ZeroErrors(t.call) /\ ~IsRecoverBuiltin(t.call)) =>
                \A p \in t.at : EmittedAt(p) = 0]_vars

C3_Witness ==
    /\ IsCallStmt(node)
    /\ StmtCall(node).typ = PErrorT
    /\ ~Matched(chk, StmtCall(node))
    /\ walked > 0
    /\ chk.errors = <<>>

(***************************************************************************)
(* C4: with blank checking enabled, every left-hand target '_' whose       *)
(* corresponding call result is of the error type yields exactly one       *)
(* diagnostic at that target's position, provided the call is not excluded *)
(* (one right-hand call: target i with result slot i; several right-hand   *)
(* expressions: target i with the call at position i); with blank checking *)
(* disabled an assignment of calls yields no diagnostic.  'v, _ := g()'    *)
(* with g returning (int, error) yields one diagnostic when enabled and    *)
(* none when disabled.                                                     *)
(***************************************************************************)
C4_BlankTargets ==
    [][(Stepped /\ node'.kind = "AssignStmt") =>
        LET n == node'
        IN  /\ \A i \in DOMAIN n.Lhs :
                  PairedWithCall(n, i) =>
                    /\ (chk.blank /\ ~Matched(chk, PairedCall(n, i))
                          /\ IsBlank(n.Lhs[i]) /\ PairedResult(n, i) = ErrorT)
                            => EmittedAt(n.Lhs[i].NamePos) = 1
                    /\ ~chk.blank => EmittedAt(LhsPos(n.Lhs[i])) = 0
            /\ (SingleRhs(n, "CallExpr") /\ ~chk.blank) => Emitted = <<>>
            /\ (SingleRhs(n, "CallExpr") /\ n.Rhs[1].typ = Tuple(<<IntT, ErrorT>>)
                  /\ ~Matched(chk, n.Rhs[1])
                  /\ ~IsBlank(n.Lhs[1]) /\ IsBlank(n.Lhs[2]))
                    => Len(Emitted) = (IF chk.blank THEN 1 ELSE 0)]_vars

C4_Witness ==
    /\ SingleRhs(node, "CallExpr")
    /\ node.Rhs[1].typ = Tuple(<<IntT, ErrorT>>)
    /\ ~IsBlank(node.Lhs[1]) /\ IsBlank(node.Lhs[2])
    /\ chk.blank
    /\ Len(chk.errors) = 1
    /\ chk.errors[1].pos = Position(node.Lhs[2].NamePos)

(***************************************************************************)
(* C5: blank-assignment mode is a superset: with the same exclusion and    *)
(* assertion configuration, every diagnostic the visitor produces for a    *)
(* statement with blank checking disabled it also produces (same position, *)
(* same text) with blank checking enabled.                                 *)
(***************************************************************************)
C5_BlankSuperset ==
    [][(Stepped /\ chk.blank) =>
        LET off == Visit([chk EXCEPT !.blank = FALSE], node').chk.errors
            offEmitted == SubSeq(off, Len(chk.errors) + 1, Len(off))
        IN  \A j \in DOMAIN offEmitted :
                \E k \in DOMAIN Emitted : Emitted[k] = offEmitted[j]]_vars

C5_Witness ==
    /\ chk.blank /\ chk.asserts
    /\ SingleRhs(node, "TypeAssertExpr")
    /\ node.Rhs[1].hasType
    /\ Len(node.Lhs) = 1
    /\ Len(chk.errors) = walked
    /\ walked > 0

(***************************************************************************)
(* C6: an assignment whose single right-hand expression is a type          *)
(* assertion: nothing is flagged when assertion checking is disabled or    *)
(* the assertion is a type switch; otherwise one target gives exactly one  *)
(* diagnostic, and two targets are flagged only when the second is '_' and *)
(* blank checking is enabled, so 's, ok := x.(string)' is never flagged.   *)
(***************************************************************************)
C6_AssertAssign ==
    [][(Stepped /\ SingleRhs(node', "TypeAssertExpr")) =>
        LET n == node'
        IN  /\ ~panicked'
            /\ IF ~chk.asserts \/ ~n.Rhs[1].hasType THEN Emitted = <<>>
               ELSE IF Len(n.Lhs) = 1 THEN Len(Emitted) = 1
               ELSE /\ Len(Emitted) <= 1
                    /\ Emitted # <<>> <=> (IsBlank(n.Lhs[2]) /\ chk.blank)]_vars

C6_Witness ==
    /\ SingleRhs(node, "TypeAssertExpr")
    /\ node.Rhs[1].hasType
    /\ chk.asserts /\ ~chk.blank
    /\ Len(node.Lhs) = 2
    /\ IsBlank(node.Lhs[2])
    /\ chk.errors = <<>>
    /\ walked > 0

(***************************************************************************)
(* C7 (as stated): the recover built-in is failure-producing whatever its  *)
(* static type: 'recover()' as a bare statement and 'defer recover()' each *)
(* yield exactly one diagnostic, '_ = recover()' yields one exactly when   *)
(* blank checking is enabled, and an identifier recover that is not the    *)
(* built-in is classified like any other call.                             *)
(***************************************************************************)
RecoverCases(excludedToo) ==
    LET n == node'
        inScope(call) == excludedToo \/ ~UnqualifiedMatch(chk, call.Fun.Name)
    IN  /\ (n.kind \in {"ExprStmt", "DeferStmt"} /\ IsCallStmt(n)
              /\ IsRecoverBuiltin(StmtCall(n)) /\ inScope(StmtCall(n)))
                => Len(Emitted) = 1
        /\ (SingleRhs(n, "CallExpr") /\ IsRecoverBuiltin(n.Rhs[1])
              /\ Len(n.Lhs) = 1 /\ IsBlank(n.Lhs[1]) /\ inScope(n.Rhs[1]))
                => Len(Emitted) = (IF chk.blank THEN 1 ELSE 0)
        /\ (IsCallStmt(n) /\ StmtCall(n).Fun = FunRecoverP)
                => (Emitted # <<>> <=> (~Matched(chk, StmtCall(n)) /\ SomeSlotTrue(StmtCall(n))))

C7_Original == [][Stepped => RecoverCases(TRUE)]_vars

(***************************************************************************)
(* C7 (amended): as stated, provided the unqualified exclusion regex does  *)
(* not match the name recover; when it does, no call of recover is         *)
(* flagged.                                                                *)
(***************************************************************************)
C7_Recover ==
    [][Stepped =>
        /\ RecoverCases(FALSE)
        /\ \A t \in CallTargets(node') :
              (IsRecoverBuiltin(t.call) /\ UnqualifiedMatch(chk, "recover"))
                  => \A p \in t.at : EmittedAt(p) = 0]_vars

C7_Witness ==
    /\ node.kind = "DeferStmt"
    /\ IsRecoverBuiltin(node.Call)
    /\ ~UnqualifiedMatch(chk, "recover")
    /\ Len(chk.errors) = walked
    /\ walked > 0
    /\ chk.errors[Len(chk.errors)].pos = Position(node.Call.Lparen)

(***************************************************************************)
(* Vocabulary of the properties of the walker                              *)
(***************************************************************************)
\* the interfaces embedded in t, directly or transitively
RECURSIVE EmbeddedIn(_, _)
EmbeddedIn(d, t) ==
    LET direct == {Embeddeds(d, maybeUnname(t))[k] : k \in 1 .. NumEmbeddeds(d, maybeUnname(t))}
    IN  direct \cup UNION {EmbeddedIn(d, u) : u \in direct}

\* the interfaces at or below t that declare fn explicitly
Declarers(d, t, fn) ==
    {u \in {t} \cup EmbeddedIn(d, t) : fn \in ExplicitMethods(maybeUnname(u))}

\* a call through a value of wrapper interface type Recv of a method that
\* only one interface B, embedded in Recv, declares
WrapperCall ==
    /\ sel.isFunc
    /\ sel.Recv \in DefinedInterfaces
    /\ Cardinality(Declarers(decls, sel.Recv, sel.fn)) = 1
    /\ sel.Recv \notin Declarers(decls, sel.Recv, sel.fn)
DeclaringInterface == CHOOSE u \in Declarers(decls, sel.Recv, sel.fn) : TRUE

(***************************************************************************)
(* C8: interface walk correctness.  If a method is explicitly declared     *)
(* only on interface B, B is embedded (possibly transitively) in wrapper   *)
(* interface A and the call goes through a value of static type A, the     *)
(* walk returns a chain that contains A and B, so that an exclusion rule   *)
(* naming A (or B) excludes the call, and a rule naming an interface that  *)
(* is not on the chain does not.                                           *)
(***************************************************************************)
C8_InterfaceWalk ==
    (wpc \in {"returned", "panic"} /\ WrapperCall) =>
        /\ wpc = "returned"
        /\ wok
        /\ chainExcludes(result, sel.Recv)
        /\ DeclaringInterface.k = "named" => chainExcludes(result, DeclaringInterface)
        /\ \A c \in DefinedInterfaces :
              c \notin ({sel.Recv} \cup EmbeddedIn(decls, sel.Recv)) => ~chainExcludes(result, c)

(***************************************************************************)
(* Vocabulary of the properties of CheckPackages                           *)
(***************************************************************************)
Returned == mainpc = "done" /\ ret.kind = "UncheckedErrors"

\* (file name, line, column, rendered line text), compared lexicographically
KeyLess(x, y) ==
    \/ StrLess(x.pos.Filename, y.pos.Filename)
    \/ /\ x.pos.Filename = y.pos.Filename
       /\ \/ x.pos.Line < y.pos.Line
          \/ /\ x.pos.Line = y.pos.Line
             /\ \/ x.pos.Column < y.pos.Column
                \/ x.pos.Column = y.pos.Column /\ StrLess(x.line, y.line)

(***************************************************************************)
(* C9: whenever CheckPackages returns a non-empty result, the list is in   *)
(* non-decreasing lexicographic order of (file name, line, column, line    *)
(* text): no entry compares less than the entry before it.                 *)
(***************************************************************************)
C9_Sorted ==
    Returned =>
        /\ ret.Errors # <<>>
        /\ \A i \in 1 .. Len(ret.Errors) - 1 : ~KeyLess(ret.Errors[i + 1], ret.Errors[i])

C9_Witness ==
    /\ Returned
    /\ Len(ret.Errors) >= 3
    /\ ret.Errors # errs
    /\ \E i \in 1 .. Len(ret.Errors) - 1 :
          ret.Errors[i].pos.Filename # ret.Errors[i + 1].pos.Filename

(***************************************************************************)
(* C10: the final aggregated collection never contains two diagnostics     *)
(* with the same (file, line, column, kind); a diagnostic produced more    *)
(* than once collapses to one entry.  (A position determines the kind.)    *)
(***************************************************************************)
C10_NoDuplicates ==
    Returned =>
        \A i, j \in DOMAIN ret.Errors :
            ret.Errors[i].pos = ret.Errors[j].pos => i = j

(***************************************************************************)
(* The reference run: the packages visited one after the other, in the     *)
(* order of the request, each by a fresh checker                           *)
(***************************************************************************)
RECURSIVE WalkAll(_, _)
WalkAll(c, nodes) ==
    IF nodes = <<>> THEN c ELSE WalkAll(Visit(c, nodes[1]).chk, Tail(nodes))

PackageErrors(pk) ==
    IF pk.Path = "unsafe" THEN <<>>
    ELSE WalkAll(checker(args.ignore, args.blank, args.asserts), pk.Nodes).errors

AllErrors ==
    Concat([w \in DOMAIN program.InitialPackages |-> PackageErrors(program.InitialPackages[w])])

\* the arrangement of a list in the order of KeyLess, smallest first
RECURSIVE Ordered(_)
Ordered(es) ==
    IF es = <<>> THEN <<>>
    ELSE LET k == CHOOSE i \in DOMAIN es : \A j \in DOMAIN es : ~KeyLess(es[j], es[i])
         IN  <<es[k]>> \o Ordered(SubSeq(es, 1, k - 1) \o SubSeq(es, k + 1, Len(es)))

(***************************************************************************)
(* C11: determinism.  The final list CheckPackages returns is a function   *)
(* of the program and the configuration alone: it is the ordered           *)
(* arrangement of the diagnostics of the sequential reference run, so any  *)
(* two runs over the same program and configuration return identical lists *)
(* (same elements, same order), whatever the order in which the workers    *)
(* complete and merge.                                                     *)
(***************************************************************************)
C11_Deterministic ==
    (mainpc = "done" /\ program.err = "") =>
        IF AllErrors = <<>> THEN ret = NilError
        ELSE ret = UncheckedErrors(Ordered(AllErrors))

C11_Witness ==
    /\ Returned
    /\ Len(errs) >= 2
    /\ errs # AllErrors
    /\ \E w \in Workers : \E v \in Workers :
          w < v /\ PackageErrors(program.InitialPackages[w]) # <<>>
                /\ PackageErrors(program.InitialPackages[v]) # <<>>

(***************************************************************************)
(* C12: load failure is fatal and all-or-nothing.  If the loader fails,    *)
(* CheckPackages returns the load error, no worker is ever started, no     *)
(* statement is visited and no diagnostic is produced; otherwise, when it  *)
(* returns, every statement of every requested package has been visited    *)
(* and every worker has finished.                                          *)
(***************************************************************************)
Traversed(w) == astI[w] = Len(program.InitialPackages[w].Nodes) + 1

MaxArgs == 2        \* flag arguments on the command line

exitCodeOk == 0
exitUncheckedError == 1
exitFatalError == 2

Names == {"f", "g", "recover"}

\* regexp.Compile: "(" does not compile
Compilable(re) == re # "("
Compile(re) ==
    CASE re \in {".*", ""} -> Names
      [] re = "f" -> {"f"}
      [] re = "g|f" -> {"f", "g"}
      [] OTHER -> {}            \* "a^", "fmt", "p": no name of the model matches
dotStar == Compile(".*")

\* strings.Index and strings.Split on lexemes; positions count from 0
Index(s, x) ==
    IF \E i \in DOMAIN s : s[i] = x
    THEN (CHOOSE i \in DOMAIN s : s[i] = x /\ \A j \in 1 .. i - 1 : s[j] # x) - 1
    ELSE -1

RECURSIVE Split(_, _)
Split(s, sep) ==
    IF Index(s, sep) = -1 THEN <<s>>
    ELSE <<SubSeq(s, 1, Index(s, sep))>> \o Split(SubSeq(s, Index(s, sep) + 2, Len(s)), sep)

\* the string a slice of lexemes stands for; the slices of the model hold
\* at most one lexeme
Text(lexemes) == IF lexemes = <<>> THEN "" ELSE lexemes[1]

RECURSIVE SetPairs(_, _)

\* variant: a package that has a regex keeps it
SetPairs_KeepFirst(f, pairs) ==
    IF pairs = <<>> THEN [err |-> FALSE, f |-> f]
    ELSE LET pair == pairs[1]
             colonIndex == Index(pair, ":")
             pkg == IF colonIndex = -1 THEN "" ELSE Text(SubSeq(pair, 1, colonIndex))
             re == IF colonIndex = -1 THEN Text(pair)
                   ELSE Text(SubSeq(pair, colonIndex + 2, Len(pair)))
         IN  IF ~Compilable(re) THEN [err |-> TRUE, f |-> f]
             ELSE SetPairs(f @@ (pkg :> Compile(re)), Tail(pairs))

\* ignoreFlag.Set, the loop over the pairs: the first regex that does not
\* compile ends it with an error
SetPairs(f, pairs) ==
    IF pairs = <<>> THEN [err |-> FALSE, f |-> f]
    ELSE LET pair == pairs[1]
             colonIndex == Index(pair, ":")
             pkg == IF colonIndex = -1 THEN "" ELSE Text(SubSeq(pair, 1, colonIndex))
             re == IF colonIndex = -1 THEN Text(pair)
                   ELSE Text(SubSeq(pair, colonIndex + 2, Len(pair)))
         IN  IF ~Compilable(re) THEN [err |-> TRUE, f |-> f]
             ELSE SetPairs((pkg :> Compile(re)) @@ f, Tail(pairs))

ignoreFlag_Set(f, s) ==
    IF s = <<>> THEN [err |-> FALSE, f |-> f] ELSE SetPairs(f, Split(s, ","))

\* lines 78-82: every non-empty package of -ignorepkg gets dotStar
RECURSIVE IgnorePkgs(_, _)
IgnorePkgs(f, pkgs) ==
    IF pkgs = <<>> THEN f
    ELSE IgnorePkgs(IF Text(pkgs[1]) # "" THEN (Text(pkgs[1]) :> dotStar) @@ f ELSE f,
                    Tail(pkgs))

\* the command lines
Flag(name, value) == [name |-> name, value |-> value]
IgnoreValues ==
    {<<"fmt", ":", "a^">>, <<"p", ":", "f">>, <<"g|f">>,
     <<"p", ":", "f", ",", "fmt", ":", "f">>, <<"p", ":", "(">>, <<>>}
IgnorePkgValues == {<<"p">>, <<"fmt">>, <<"p", ",", "fmt">>, <<>>}
FlagArgs ==
    {Flag("ignore", v) : v \in IgnoreValues}
    \cup {Flag("ignorepkg", v) : v \in IgnorePkgValues}
    \cup {Flag("blank", <<>>), Flag("asserts", <<>>), Flag("bogus", <<>>)}
Argvs == UNION {[1 .. n -> FlagArgs] : n \in 0 .. MaxArgs}

\* strconv.Itoa and token.Position.String: file:line:column
RECURSIVE Itoa(_)
Itoa(n) == IF n < 10 THEN <<48 + n>> ELSE Itoa(n \div 10) \o <<48 + (n % 10)>>
PositionString(pos) == pos.Filename \o <<58>> \o Itoa(pos.Line) \o <<58>> \o Itoa(pos.Column)

\* strings.Index on character codes
StrIndex(s, sub) ==
    LET at == {i \in 0 .. Len(s) - Len(sub) : SubSeq(s, i + 1, i + Len(sub)) = sub}
    IN  IF at = {} THEN -1 ELSE CHOOSE i \in at : \A j \in at : i <= j

SlashSrc == <<47, 115, 114, 99, 47>>      \* "/src/"

\* uncheckedError.Error: the position, cut after the first "/src/", a tab,
\* the line
uncheckedError_Error(e) ==
    LET pos == PositionString(e.pos)
        i == StrIndex(pos, SlashSrc)
    IN  (IF i # -1 THEN SubSeq(pos, i + Len(SlashSrc) + 1, Len(pos)) ELSE pos)
            \o <<9>> \o e.line

\* what CheckPackages can hand back to mainCmd
ErrNoGoFiles == [kind |-> "ErrNoGoFiles"]
Diagnostic(file, l, c, text) ==
    [pos |-> [Filename |-> file, Line |-> l, Column |-> c], line |-> text]
Found1 == Diagnostic(<<97>>, 2, 2, <<102, 40, 41>>)                          \* a:2:2  f()
Found2 == Diagnostic(<<120, 47, 115, 114, 99, 47, 97, 98>>, 12, 3, Unknown)  \* x/src/ab:12:3  ??
CheckResults ==
    {NilError, ErrNoGoFiles, Errorf("could not type check")}
    \cup {UncheckedErrors(es) : es \in {<<Found1>>, <<Found1, Found2>>}}

(***************************************************************************)
(* mainCmd, one action per step                                            *)
(***************************************************************************)
InitCmd ==
    /\ argv \in Argvs
    /\ argI = 1
    /\ flagIgnore = ("fmt" :> dotStar)
    /\ flagIgnorePkg = <<>>
    /\ flagBlank = FALSE
    /\ flagAsserts = FALSE
    /\ cpc = "parse"
    /\ checkErr = NilError
    /\ printI = 1
    /\ stdout = <<>>
    /\ stderr = <<>>
    /\ exitCode = NoExit
    /\ LoopIdle
    /\ VisitIdle
    /\ WalkIdle
    /\ AggIdle

\* line 74-76: flags.Parse fails; mainCmd returns exitFatalError
ParseFails ==
    /\ cpc' = "exit"
    /\ exitCode' = exitFatalError
    /\ stderr' = Append(stderr, "usage")
    /\ UNCHANGED <<argI, flagIgnore, flagIgnorePkg, flagBlank, flagAsserts>>

\* line 74: flags.Parse reads one flag argument and sets its variable
CmdParseArg ==
    /\ cpc = "parse"
    /\ argI <= Len(argv)
    /\ LET a == argv[argI]
       IN  CASE a.name = "ignore" ->
                    IF ignoreFlag_Set(flagIgnore, a.value).err THEN ParseFails
                    ELSE /\ flagIgnore' = ignoreFlag_Set(flagIgnore, a.value).f
                         /\ argI' = argI + 1
                         /\ UNCHANGED <<flagIgnorePkg, flagBlank, flagAsserts, cpc, stderr, exitCode>>
             [] a.name = "ignorepkg" ->
                    /\ flagIgnorePkg' = a.value
                    /\ argI' = argI + 1
                    /\ UNCHANGED <<flagIgnore, flagBlank, flagAsserts, cpc, stderr, exitCode>>
             [] a.name = "blank" ->
                    /\ flagBlank' = TRUE
                    /\ argI' = argI + 1
                    /\ UNCHANGED <<flagIgnore, flagIgnorePkg, flagAsserts, cpc, stderr, exitCode>>
             [] a.name = "asserts" ->
                    /\ flagAsserts' = TRUE
                    /\ argI' = argI + 1
                    /\ UNCHANGED <<flagIgnore, flagIgnorePkg, flagBlank, cpc, stderr, exitCode>>
             [] OTHER -> ParseFails
    /\ UNCHANGED <<argv, checkErr, printI, stdout>>
    /\ UNCHANGED <<visitVars, walkVars, aggVars, loopVars>>

\* line 74: flags.Parse has read every flag argument
CmdParsed ==
    /\ cpc = "parse"
    /\ argI > Len(argv)
    /\ cpc' = "ignorepkg"
    /\ UNCHANGED <<argv, argI, flagIgnore, flagIgnorePkg, flagBlank, flagAsserts, checkErr, printI>>
    /\ UNCHANGED <<visitVars, walkVars, aggVars, loopVars, ioVars>>

\* variant: a package that has a regex from -ignore keeps it
CmdIgnorePkg_KeepRegex ==
    /\ cpc = "ignorepkg"
    /\ flagIgnore' = flagIgnore @@ IgnorePkgs(flagIgnore, Split(flagIgnorePkg, ","))
    /\ cpc' = "check"
    /\ UNCHANGED <<argv, argI, flagIgnorePkg, flagBlank, flagAsserts, checkErr, printI>>
    /\ UNCHANGED <<visitVars, walkVars, aggVars, loopVars, ioVars>>

\* lines 78-82
CmdIgnorePkg ==
    /\ cpc = "ignorepkg"
    /\ flagIgnore' = IgnorePkgs(flagIgnore, Split(flagIgnorePkg, ","))
    /\ cpc' = "check"
    /\ UNCHANGED <<argv, argI, flagIgnorePkg, flagBlank, flagAsserts, checkErr, printI>>
    /\ UNCHANGED <<visitVars, walkVars, aggVars, loopVars, ioVars>>

\* variant: ErrNoGoFiles is handled like any other error
CmdCheck_NoGoFatal ==
    /\ cpc = "check"
    /\ \E err \in CheckResults :
          /\ checkErr' = err
          /\ CASE err.kind = "nil" ->
                    cpc' = "exit" /\ exitCode' = exitCodeOk /\ stderr' = stderr
               [] err.kind = "UncheckedErrors" ->
                    cpc' = "print" /\ UNCHANGED <<exitCode, stderr>>
               [] OTHER ->
                    /\ cpc' = "exit"
                    /\ exitCode' = exitFatalError
                    /\ stderr' = Append(stderr, "error: failed to check packages")
    /\ UNCHANGED <<argv, argI, flagIgnore, flagIgnorePkg, flagBlank, flagAsserts, printI, stdout>>
    /\ UNCHANGED <<visitVars, walkVars, aggVars, loopVars>>

\* lines 86-99: the call of CheckPackages and the branch on what it returns
CmdCheck ==
    /\ cpc = "check"
    /\ \E err \in CheckResults :
          /\ checkErr' = err
          /\ CASE err.kind = "nil" ->
                    cpc' = "exit" /\ exitCode' = exitCodeOk /\ stderr' = stderr
               [] err.kind = "UncheckedErrors" ->
                    cpc' = "print" /\ UNCHANGED <<exitCode, stderr>>
               [] err.kind = "ErrNoGoFiles" ->
                    /\ cpc' = "exit"
                    /\ exitCode' = exitCodeOk
                    /\ stderr' = Append(stderr, "package contains no go source files")
               [] OTHER ->
                    /\ cpc' = "exit"
                    /\ exitCode' = exitFatalError
                    /\ stderr' = Append(stderr, "error: failed to check packages")
    /\ UNCHANGED <<argv, argI, flagIgnore, flagIgnorePkg, flagBlank, flagAsserts, printI, stdout>>
    /\ UNCHANGED <<visitVars, walkVars, aggVars, loopVars>>

\* lines 88-90: one iteration of the loop that prints the findings
CmdPrint ==
    /\ cpc = "print"
    /\ printI <= Len(checkErr.Errors)
    /\ stdout' = Append(stdout, uncheckedError_Error(checkErr.Errors[printI]))
    /\ printI' = printI + 1
    /\ UNCHANGED <<argv, argI, flagIgnore, flagIgnorePkg, flagBlank, flagAsserts, cpc, checkErr>>
    /\ UNCHANGED <<stderr, exitCode>>
    /\ UNCHANGED <<visitVars, walkVars, aggVars, loopVars>>

\* line 91
CmdPrinted ==
    /\ cpc = "print"
    /\ printI > Len(checkErr.Errors)
    /\ cpc' = "exit"
    /\ exitCode' = exitUncheckedError
    /\ UNCHANGED <<argv, argI, flagIgnore, flagIgnorePkg, flagBlank, flagAsserts, checkErr, printI>>
    /\ UNCHANGED <<stdout, stderr>>
    /\ UNCHANGED <<visitVars, walkVars, aggVars, loopVars>>

NextCmd ==
    \/ CmdParseArg
    \/ CmdParsed
    \/ CmdIgnorePkg
    \/ CmdCheck
    \/ CmdPrint
    \/ CmdPrinted

SpecCmd == InitCmd /\ [][NextCmd]_vars

(***************************************************************************)
(* Vocabulary of the properties of the command                             *)
(***************************************************************************)
KnownFlags == {"ignore", "ignorepkg", "blank", "asserts"}
BadRegex(value) == \E k \in DOMAIN value : value[k] = "("
FlagParseError ==
    \E i \in DOMAIN argv :
        argv[i].name \notin KnownFlags \/ (argv[i].name = "ignore" /\ BadRegex(argv[i].value))
FlagsProcessed == cpc \in {"check", "print", "exit"} /\ ~FlagParseError

(***************************************************************************)
(* C13: the exit status of the command is 0 when checking completes with   *)
(* no diagnostics (CheckPackages returns nil, or the 'no Go files'         *)
(* error), 1 exactly when checking completes with at least one unchecked   *)
(* error, every one of them printed on standard output, and 2 for every    *)
(* other failure (flag-parse error, load or type-check error); no other    *)
(* status occurs, and nothing is printed on standard output unless the     *)
(* status is 1.                                                            *)
(***************************************************************************)
C13_ExitStatus ==
    /\ cpc # "exit" => exitCode = NoExit
    /\ cpc = "exit" =>
          /\ exitCode \in {0, 1, 2}
          /\ exitCode = 0 <=> (~FlagParseError /\ checkErr.kind \in {"nil", "ErrNoGoFiles"})
          /\ exitCode = 1 <=> (~FlagParseError /\ checkErr.kind = "UncheckedErrors")
          /\ exitCode = 2 <=> (FlagParseError \/ checkErr.kind = "error")
          /\ exitCode = 1 =>
                /\ Len(checkErr.Errors) >= 1
                /\ Len(stdout) = Len(checkErr.Errors)
                /\ \A i \in DOMAIN stdout : stdout[i] = uncheckedError_Error(checkErr.Errors[i])
          /\ exitCode # 1 => stdout = <<>>

C13_Witness ==
    /\ cpc = "exit"
    /\ exitCode = 1
    /\ Len(stdout) = 2
    /\ argv # <<>>

(***************************************************************************)
(* The command that checks one package at a time: main, CheckPackage,      *)
(* newPackage, findPackage.  A package path is described by what the build *)
(* context, the parser and the type checker answer for it, and by the      *)
(* diagnostics its visit yields.                                           *)
(***************************************************************************)
MaxMatched == 2     \* packages the pattern matches

\* imp: ctx.Import ("ok", "NoGoError" or "error"); dir: ctx.ImportDir ("ok"
\* or "error"); goFiles: len(pkg.GoFiles); parses, typeChecks: whether
\* parseFile and typeCheck succeed; errors: visitor.errors after the walk
Pk(imp, dir, goFiles, parses, typeChecks, errors) ==
    [imp |-> imp, dir |-> dir, goFiles |-> goFiles, parses |-> parses,
     typeChecks |-> typeChecks, errors |-> errors]
PkFindings == Pk("ok", "ok", 1, TRUE, TRUE, <<Found1>>)
PkClean == Pk("ok", "ok", 1, TRUE, TRUE, <<>>)
PkByDir == Pk("error", "ok", 1, TRUE, TRUE, <<Found1, Found2>>)
PkTestOnly == Pk("ok", "ok", 0, TRUE, TRUE, <<>>)           \* only _test.go files
PkEmpty == Pk("NoGoError", "error", 0, TRUE, TRUE, <<>>)    \* a directory without Go files
PkMissing == Pk("error", "error", 0, TRUE, TRUE, <<>>)
PkBadSyntax == Pk("ok", "ok", 1, FALSE, TRUE, <<>>)
PkBadTypes == Pk("ok", "ok", 1, TRUE, FALSE, <<>>)
MatchedPackages ==
    {PkFindings, PkClean, PkByDir, PkTestOnly, PkEmpty, PkMissing, PkBadSyntax, PkBadTypes}

\* findPackage: the *build.Package, or an error
findPackage(pk) ==
    IF pk.imp = "NoGoError" THEN [err |-> "no Go source files", goFiles |-> 0]
    ELSE IF pk.imp = "error" /\ pk.dir = "error" THEN [err |-> "could not import", goFiles |-> 0]
    ELSE [err |-> "", goFiles |-> pk.goFiles]

\* newPackage
newPackage(pk) ==
    IF findPackage(pk).err # "" THEN Errorf("could not find package")
    ELSE IF findPackage(pk).goFiles = 0 THEN ErrNoGoFiles
    ELSE IF ~pk.parses THEN Errorf("could not parse")
    ELSE NilError

\* checkPackage
checkPackage(pk) ==
    IF ~pk.typeChecks THEN Errorf("could not type check")
    ELSE IF Len(pk.errors) > 0 THEN UncheckedErrors(pk.errors)
    ELSE NilError

CheckPackage(pk) ==
    IF newPackage(pk).kind # "nil" THEN newPackage(pk) ELSE checkPackage(pk)

\* uncheckedError.Error of this version: the position, a tab, the line
uncheckedError_ErrorLib(e) == PositionString(e.pos) \o <<9>> \o e.line

InitLoop ==
    /\ matched \in UNION {[1 .. n -> MatchedPackages] : n \in 1 .. MaxMatched}
    /\ pkgI = 1
    /\ exitStatus = 0
    /\ lpc = "loop"
    /\ stdout = <<>>
    /\ stderr = <<>>
    /\ exitCode = NoExit
    /\ CmdIdle
    /\ VisitIdle
    /\ WalkIdle
    /\ AggIdle

\* lines 186-199: one iteration of the loop over the matched packages
LoopCheck ==
    /\ lpc = "loop"
    /\ pkgI <= Len(matched)
    /\ LET err == CheckPackage(matched[pkgI])
       IN  CASE err.kind = "nil" ->
                    /\ pkgI' = pkgI + 1
                    /\ UNCHANGED <<exitStatus, lpc, stdout, stderr, exitCode>>
             [] err.kind = "UncheckedErrors" ->
                    /\ stdout' = stdout \o [i \in DOMAIN err.Errors |->
                                                uncheckedError_ErrorLib(err.Errors[i])]
                    /\ exitStatus' = 1
                    /\ pkgI' = pkgI + 1
                    /\ UNCHANGED <<lpc, stderr, exitCode>>
             [] err.kind = "ErrNoGoFiles" ->
                    /\ stderr' = Append(stderr, "package contains no go source files")
                    /\ pkgI' = pkgI + 1
                    /\ UNCHANGED <<exitStatus, lpc, stdout, exitCode>>
             [] OTHER ->
                    /\ stderr' = Append(stderr, "error: failed to check package")
                    /\ exitCode' = 2
                    /\ lpc' = "exit"
                    /\ UNCHANGED <<pkgI, exitStatus, stdout>>
    /\ UNCHANGED matched
    /\ UNCHANGED <<visitVars, walkVars, aggVars, cmdVars>>

\* line 201: os.Exit(exitStatus)
LoopExit ==
    /\ lpc = "loop"
    /\ pkgI > Len(matched)
    /\ exitCode' = exitStatus
    /\ lpc' = "exit"
    /\ UNCHANGED <<matched, pkgI, exitStatus, stdout, stderr>>
    /\ UNCHANGED <<visitVars, walkVars, aggVars, cmdVars>>

NextLoop == LoopCheck \/ LoopExit

SpecLoop == InitLoop /\ [][NextLoop]_vars

(***************************************************************************)
(* C14: a requested package with no Go source files is non-fatal: the      *)
(* iteration that checks it writes one informational line to standard      *)
(* error, prints no diagnostic, goes on to the next requested package, and *)
(* leaves the exit status as it was (it causes no exit with status 2 and   *)
(* does not reset a status 1 of an earlier package).                       *)
(***************************************************************************)
NoGoSourceFiles(pk) == pk.goFiles = 0 /\ (pk.imp = "ok" \/ pk.imp = "NoGoError")
LoopStepped == <<pkgI, lpc>>' # <<pkgI, lpc>>

C14_NoGoFilesNonFatal ==
    [][(LoopStepped /\ lpc = "loop" /\ pkgI <= Len(matched)
            /\ NoGoSourceFiles(matched[pkgI])) =>
        /\ stderr' = Append(stderr, "package contains no go source files")
        /\ stdout' = stdout
        /\ lpc' = "loop"
        /\ pkgI' = pkgI + 1
        /\ exitStatus' = exitStatus
        /\ exitCode' = NoExit]_vars

(***************************************************************************)
(* C15: a call whose result, or one element of whose result tuple, is a    *)
(* concrete defined type or a pointer type that implements error (and is   *)
(* not the predeclared error) is reported when it is a bare statement, and *)
(* its assignment to '_' is reported when blank checking is enabled        *)
(* (the call not being excluded).                                          *)
(***************************************************************************)
ImplementsError(t) == t \in {ErrorT, MyErrorT, MyPointerErrorT}
ReturnsCustomError(call) ==
    \E i \in DOMAIN ResultTypes(call) :
        ImplementsError(ResultTypes(call)[i]) /\ ResultTypes(call)[i] # ErrorT

C15_CustomErrorTypes ==
    [][Stepped =>
        LET n == node'
        IN  /\ (n.kind = "ExprStmt" /\ IsCallStmt(n) /\ ReturnsCustomError(n.X)
                  /\ ~Matched(chk, n.X))
                    => (Len(Emitted) = 1 /\ Emitted[1].pos = Position(n.X.Lparen))
            /\ (SingleRhs(n, "CallExpr") /\ chk.blank /\ ~Matched(chk, n.Rhs[1]))
                    => \A i \in DOMAIN n.Lhs :
                          (IsBlank(n.Lhs[i]) /\ ImplementsError(PairedResult(n, i))
                                /\ PairedResult(n, i) # ErrorT)
                            => EmittedAt(n.Lhs[i].NamePos) = 1]_vars

(***************************************************************************)
(* ast.Walk over whole statements: the visitor is handed the statement and *)
(* then every node below it, in depth-first order.  The statements here    *)
(* are those of a program that calls into a vendored package and that      *)
(* uses type assertions inside other expressions and statements.           *)
(***************************************************************************)
PkgTestlog == "github.com/testlog"
PkgVendoredTestlog == "github.com/testvendor/vendor/github.com/testlog"

FunInfoVendored == Fun("SelectorExpr", "Info", Obj("Func", PkgVendoredTestlog))
FunInfo == Fun("SelectorExpr", "Info", Obj("Func", PkgTestlog))

CallArgs(fun, pos, typ, callArgs) ==
    [ekind |-> "CallExpr", Fun |-> fun, Pos |-> pos, Lparen |-> pos + 1, typ |-> typ,
     Args |-> callArgs]
BinaryExpr(x, pos) == [ekind |-> "BinaryExpr", X |-> x, Pos |-> pos]
IfStmt(cond) == [kind |-> "IfStmt", Cond |-> cond]
ReturnStmt(results) == [kind |-> "ReturnStmt", Results |-> results]
TypeSwitchStmt(assign) == [kind |-> "TypeSwitchStmt", Assign |-> assign]

TreeStmts(b) ==
    {ExprStmt(Call(f, b, ErrorT)) : f \in {FunInfoVendored, FunInfo}}
    \cup {GoStmt(Call(FunInfoVendored, b + 1, ErrorT)),
          AssignStmt(<<Ident("_", b)>>, <<Call(FunInfoVendored, b + 2, ErrorT)>>),
          ExprStmt(CallArgs(FunIdF, b, IntT, <<TypeAssert(b + 2, TRUE)>>)),
          IfStmt(BinaryExpr(TypeAssert(b + 1, TRUE), b + 1)),
          ReturnStmt(<<TypeAssert(b + 1, TRUE)>>),
          AssignStmt(<<Ident("_", b)>>, <<TypeAssert(b + 2, TRUE)>>),
          AssignStmt(<<Ident("v", b), Ident("ok", b + 1)>>, <<TypeAssert(b + 3, TRUE)>>),
          TypeSwitchStmt(ExprStmt(TypeAssert(b + 1, FALSE))),
          TypeSwitchStmt(AssignStmt(<<Ident("v", b + 1)>>, <<TypeAssert(b + 3, FALSE)>>))}
TreeStmtsAt == [k \in 0 .. MaxWalk |-> TreeStmts(StmtBase(k))]

TreeIgnoreMaps ==
    UNION {[D -> {{"Info"}}] : D \in SUBSET {PkgTestlog, PkgVendoredTestlog}}
TreeCheckers == {checker(im, b, a) : im \in TreeIgnoreMaps, b \in BOOLEAN, a \in BOOLEAN}

\* the nodes directly below a node, in the order ast.Walk takes them
Children(n) ==
    IF "kind" \in DOMAIN n
    THEN CASE n.kind = "ExprStmt" -> <<n.X>>
           [] n.kind \in {"GoStmt", "DeferStmt"} -> <<n.Call>>
           [] n.kind = "AssignStmt" -> n.Lhs \o n.Rhs
           [] n.kind = "IfStmt" -> <<n.Cond>>
           [] n.kind = "ReturnStmt" -> n.Results
           [] n.kind = "TypeSwitchStmt" -> <<n.Assign>>
           [] OTHER -> <<>>
    ELSE CASE n.ekind = "CallExpr" ->
                <<n.Fun>> \o (IF "Args" \in DOMAIN n THEN n.Args ELSE <<>>)
           [] n.ekind = "BinaryExpr" -> <<n.X>>
           [] OTHER -> <<>>

RECURSIVE Preorder(_)
Preorder(n) ==
    <<n>> \o Concat([i \in DOMAIN Children(n) |-> Preorder(Children(n)[i])])

\* an expression as the ast.Node handed to Visit
AsNode(n) == IF "kind" \in DOMAIN n THEN n ELSE [kind |-> n.ekind, X |-> n]

RECURSIVE VisitSeq(_, _)
VisitSeq(c, nodes) ==
    IF nodes = <<>> THEN [chk |-> c, panic |-> FALSE]
    ELSE LET r == Visit(c, AsNode(nodes[1]))
         IN  IF r.panic THEN r ELSE VisitSeq(r.chk, Tail(nodes))

ast_Walk(c, n) == VisitSeq(c, Preorder(n))

InitTree ==
    /\ chk \in TreeCheckers
    /\ node = NoNode
    /\ walked = 0
    /\ panicked = FALSE
    /\ WalkIdle
    /\ AggIdle
    /\ MainIdle

WalkStmt ==
    /\ ~panicked
    /\ walked < MaxWalk
    /\ \E n \in TreeStmtsAt[walked] :
          /\ node' = n
          /\ chk' = ast_Walk(chk, n).chk
          /\ panicked' = ast_Walk(chk, n).panic
    /\ walked' = walked + 1
    /\ UNCHANGED <<walkVars, aggVars, mainVars>>

NextTree == WalkStmt

SpecTree == InitTree /\ [][NextTree]_vars

(***************************************************************************)
(* C16: a call into the vendored copy of a package (resolved path          *)
(* '<project>/vendor/github.com/testlog') gets no diagnostic when the      *)
(* ignore map has a regex matching its name under the non-vendored path    *)
(* 'github.com/testlog' or under the full vendored path; with no ignore    *)
(* rule the bare call is reported once.                                    *)
(***************************************************************************)
NonVendored(path) == IF path = PkgVendoredTestlog THEN PkgTestlog ELSE path
RuleFor(c, path, name) == path \in DOMAIN c.ignore /\ name \in c.ignore[path]
IsVendoredCall(call) == call.Fun.obj.pkg = PkgVendoredTestlog

C16_VendoredIgnore ==
    [][Stepped =>
        \A t \in CallTargets(node') :
            IsVendoredCall(t.call) =>
                /\ (\/ RuleFor(chk, NonVendored(t.call.Fun.obj.pkg), t.call.Fun.Name)
                    \/ RuleFor(chk, t.call.Fun.obj.pkg, t.call.Fun.Name))
                        => \A p \in t.at : EmittedAt(p) = 0
                /\ (chk.ignore = <<>> /\ node'.kind = "ExprStmt") => Len(Emitted) = 1]_vars

(***************************************************************************)
(* C17: with assertion checking on, every single-valued type assertion     *)
(* with an explicit type gets one 'unchecked error' diagnostic on its      *)
(* line wherever it occurs (right-hand side of '_ =', call argument, 'if'  *)
(* condition, 'return' operand), and the guard of a type switch,           *)
(* 'switch x.(type)', gets none.                                           *)
(***************************************************************************)
SameLine(pos, p) ==
    pos.Filename = Position(p).Filename /\ pos.Line = Position(p).Line
EmittedOnLine(p) == Cardinality({k \in DOMAIN Emitted : SameLine(Emitted[k].pos, p)})
IsAssert(x) == "ekind" \in DOMAIN x /\ x.ekind = "TypeAssertExpr"
AssertsIn(n) ==
    {Preorder(n)[i] : i \in {j \in DOMAIN Preorder(n) : IsAssert(Preorder(n)[j])}}
TwoValued(n) == n.kind = "AssignStmt" /\ Len(n.Lhs) = 2 /\ Len(n.Rhs) = 1

C17_AssertsEverywhere ==
    [][(Stepped /\ chk.asserts /\ ~TwoValued(node')) =>
        \A x \in AssertsIn(node') :
            EmittedOnLine(x.Pos) = (IF x.hasType THEN 1 ELSE 0)]_vars

(***************************************************************************)
(* C18: when -ignore gives a regex for package pkg and pkg is also in the  *)
(* value of -ignorepkg, the rule for pkg after flag processing is the      *)
(* match-everything regex, whichever flag comes first on the command line, *)
(* and every function of pkg is ignored.  (-ignorepkg is a string flag: a  *)
(* repeated -ignorepkg replaces the value, so its value is the last one.)  *)
(***************************************************************************)
PairPkg(pair) == IF Index(pair, ":") = -1 THEN "" ELSE Text(SubSeq(pair, 1, Index(pair, ":")))
PairRe(pair) ==
    IF Index(pair, ":") = -1 THEN Text(pair)
    ELSE Text(SubSeq(pair, Index(pair, ":") + 2, Len(pair)))

\* the pairs of every -ignore flag, in command-line order
RECURSIVE IgnorePairs(_)
IgnorePairs(flagArgs) ==
    IF flagArgs = <<>> THEN <<>>
    ELSE (IF flagArgs[1].name = "ignore" /\ flagArgs[1].value # <<>>
          THEN Split(flagArgs[1].value, ",") ELSE <<>>) \o IgnorePairs(Tail(flagArgs))

Qualified(pair) == Index(pair, ":") # -1
IgnoreGives(pkg) ==
    \E i \in DOMAIN IgnorePairs(argv) :
        Qualified(IgnorePairs(argv)[i]) /\ PairPkg(IgnorePairs(argv)[i]) = pkg
InIgnorePkg(pkg) ==
    \E i \in DOMAIN Split(flagIgnorePkg, ",") : Text(Split(flagIgnorePkg, ",")[i]) = pkg
FlagPkgs == {"p", "fmt"}
CallInto(pkg, name) == Call(Fun("SelectorExpr", name, Obj("Func", pkg)), 0, ErrorT)
EffectiveChecker == checker(flagIgnore, flagBlank, flagAsserts)

C18_IgnorePkgOverrides ==
    FlagsProcessed =>
        \A pkg \in FlagPkgs :
            (IgnoreGives(pkg) /\ InIgnorePkg(pkg)) =>
                /\ pkg \in DOMAIN flagIgnore
                /\ flagIgnore[pkg] = dotStar
                /\ \A name \in Names : ignoreCall(EffectiveChecker, CallInto(pkg, name))

\* -ignorepkg p comes before -ignore p:f
C18_Witness ==
    /\ cpc = "check"
    /\ Len(argv) = 2
    /\ argv[1].name = "ignorepkg"
    /\ argv[2].name = "ignore"
    /\ IgnoreGives("p") /\ InIgnorePkg("p")
    /\ Compile(PairRe(argv[2].value)) # dotStar

(***************************************************************************)
(* C19: by default the ignore map takes 'fmt' to the match-everything      *)
(* regex; a regex that -ignore gives for 'fmt' replaces it (after          *)
(* 'fmt:a^' no fmt function is ignored), and pairs for other packages or   *)
(* for the unqualified key never remove the fmt entry.                     *)
(***************************************************************************)
FmtPairs == SelectSeq(IgnorePairs(argv), LAMBDA pair : Qualified(pair) /\ PairPkg(pair) = "fmt")
LastFmtRegex == Compile(PairRe(FmtPairs[Len(FmtPairs)]))

Unresolved(call) == call.Fun.obj.okind = "nil"
AllUnresolved(n) == CallTargets(n) # {} /\ \A t \in CallTargets(n) : Unresolved(t.call)
NoRules(c) == [c EXCEPT !.ignore = <<>>]
NameMatched(c, call) == HasIdent(call) /\ UnqualifiedMatch(c, call.Fun.Name)

C20_Original ==
    [][(Stepped /\ AllUnresolved(node')) =>
        /\ chk'.errors = Visit(NoRules(chk), node').chk.errors
        /\ (IsCallStmt(node') /\ FailureProducing(StmtCall(node')))
              => EmittedAt(StmtCall(node').Lparen) = 1]_vars

(***************************************************************************)
(* C20 (amended): a call whose callee binds to no statically known object  *)
(* is never excluded by a package-qualified rule; it is excluded exactly   *)
(* when the unqualified regex matches the callee's bare name, and          *)
(* otherwise it falls through to ordinary result classification.           *)
(***************************************************************************)
C20_UnresolvedCallee ==
    [][(Stepped /\ AllUnresolved(node')) =>
        /\ (\A t \in CallTargets(node') : ~NameMatched(chk, t.call))
              => chk'.errors = Visit(NoRules(chk), node').chk.errors
        /\ \A t \in CallTargets(node') :
              NameMatched(chk, t.call) => \A p \in t.at : EmittedAt(p) = 0
        /\ IsCallStmt(node') =>
              EmittedAt(StmtCall(node').Lparen) =
                  (IF ~NameMatched(chk, StmtCall(node')) /\ FailureProducing(StmtCall(node'))
                   THEN 1 ELSE 0)]_vars

\* f() with f unresolved and returning error, under a rule for package p
\* that matches the name f and no unqualified rule: reported
C20_Witness ==
    /\ IsCallStmt(node)
    /\ StmtCall(node).Fun = FunUnres
    /\ StmtCall(node).typ = ErrorT
    /\ PkgP \in DOMAIN chk.ignore
    /\ "f" \in chk.ignore[PkgP]
    /\ "" \notin DOMAIN chk.ignore
    /\ Len(chk.errors) = 1

(***************************************************************************)
(* C21: in the concurrent CheckPackages, for every interleaving of the     *)
(* workers, the merged list is made of whole batches: at any moment it is  *)
(* the batches of the workers that have finished their append, one after   *)
(* the other in some order, followed by the part the worker now appending  *)
(* has copied; once all workers have finished it is exactly the union of   *)
(* the workers' diagnostic lists, nothing lost, doubled or interleaved.    *)
(***************************************************************************)
Batch(w) == visitor[w].errors
Orders(S) == {q \in [1 .. Cardinality(S) -> S] : \A i, j \in DOMAIN q : i # j => q[i] # q[j]}
ConcatBatches(q) == Concat([i \in DOMAIN q |-> Batch(q[i])])
Started == {w \in Workers : gpc[w] # "none"}
Appended == {w \in Workers : gpc[w] \in {"unlock", "done", "exited"} /\ Len(Batch(w)) > 0}
Appending == {w \in Workers : gpc[w] = "append"}
CopiedSoFar ==
    IF Appending = {} THEN <<>>
    ELSE LET w == CHOOSE v \in Appending : TRUE IN SubSeq(Batch(w), 1, appendI[w] - 1)
AllFinished == mainpc \in {"return", "done"} /\ program.err = ""

C21_MergeExact ==
    /\ Cardinality(Appending) <= 1
    /\ \E q \in Orders(Appended) : errs = ConcatBatches(q) \o CopiedSoFar
    /\ AllFinished =>
          /\ \A w \in Started : gpc[w] = "exited"
          /\ \E q \in Orders(Started) : errs = ConcatBatches(q)

\* both workers have findings and the second one merged first
C21_Witness ==
    /\ mainpc = "done"
    /\ program.err = ""
    /\ \E w, v \in Started :
          /\ w < v
          /\ Len(Batch(w)) >= 2
          /\ Len(Batch(v)) >= 1
          /\ errs = Batch(v) \o Batch(w)
          /\ errs # Batch(w) \o Batch(v)

(***************************************************************************)
(* C22: the workers share no mutable state but the merged list.  A step    *)
(* changes the checker (diagnostics and line cache) and the walk position  *)
(* of at most one worker, and a checker changes only during its own        *)
(* worker's traversal; the program, the ignore map and the mode flags      *)
(* never change; the merged list changes only in a step of the worker      *)
(* that holds the mutex, which at most one worker holds; and a worker that *)
(* is traversing (or past the lock) can always take its next step: only    *)
(* a worker at the lock, its traversal complete, can have to wait.         *)
(***************************************************************************)
Holders == {w \in Workers : gpc[w] \in {"append", "unlock"}}
Private(w) == <<visitor[w], astI[w], appendI[w]>>
WorkerStep(w) ==
    \/ WorkerVisit(w) \/ WorkerWalked(w) \/ WorkerLock(w)
    \/ WorkerAppend(w) \/ WorkerUnlock(w) \/ WorkerDone(w)
Running == mainpc \notin {"idle", "crashed"}

C22_StateOk ==
    Running =>
        /\ Cardinality(Holders) <= 1
        /\ Holders = (IF errsMutex = 0 THEN {} ELSE {errsMutex})
        /\ \A w \in Workers :
              /\ gpc[w] = "walk" => ENABLED (WorkerVisit(w) \/ WorkerWalked(w))
              /\ gpc[w] = "append" => ENABLED WorkerAppend(w)
              /\ gpc[w] = "unlock" => ENABLED WorkerUnlock(w)
              /\ gpc[w] = "done" => ENABLED WorkerDone(w)
              /\ gpc[w] = "lock" => astI[w] > Len(program.InitialPackages[w].Nodes)
C22_StepOk ==
    /\ args' = args
    /\ program' = program
    /\ \A w \in Workers :
          /\ Private(w)' # Private(w) =>
                /\ gpc[w] \in {"walk", "append"}
                /\ \A v \in Workers \ {w} : Private(v)' = Private(v) /\ gpc'[v] = gpc[v]
          /\ visitor'[w] # visitor[w] => gpc[w] = "walk"
    /\ errs' # errs =>
          /\ errsMutex # 0
          /\ errsMutex' = errsMutex
          /\ gpc[errsMutex] = "append"
          /\ Private(errsMutex)' # Private(errsMutex)
          /\ errs' = Append(errs, visitor[errsMutex].errors[appendI[errsMutex]])

C22_NoSharedState == []C22_StateOk /\ [][C22_StepOk]_vars

\* one worker holds the mutex and copies its batch while another, its
\* traversal complete, waits at the lock
C22_Witness ==
    \E w, v \in Workers :
        /\ gpc[w] = "append"
        /\ errsMutex = w
        /\ appendI[w] = 2
        /\ gpc[v] = "lock"
        /\ ~ENABLED WorkerLock(v)

(***************************************************************************)
(* C23: under fair scheduling the concurrent CheckPackages always          *)
(* returns, and when it has returned the mutex is free and every started   *)
(* worker has signalled completion.  A worker signals once (the counter    *)
(* goes down by one, in the step that ends that worker, and an ended       *)
(* worker stays ended); no worker ends while it holds the mutex; and the   *)
(* merged list is read, sorted and returned only after every started       *)
(* worker has signalled completion.                                        *)
(***************************************************************************)
Signalled == {w \in Workers : gpc[w] = "exited"}
C23_StateOk ==
    /\ \A w \in Signalled : errsMutex # w
    /\ Running => wg = Cardinality(Started \ Signalled)
    /\ (mainpc \in {"return", "done"} /\ program.err = "") => Started = Signalled
C23_StepOk ==
    /\ \A w \in Workers : gpc[w] = "exited" => gpc'[w] = "exited"
    /\ wg' < wg =>
          /\ wg' = wg - 1
          /\ \E w \in Workers :
                /\ gpc[w] = "done"
                /\ Signalled' = Signalled \cup {w}
    /\ ret' # ret => (mainpc \in {"load", "return"} /\ mainpc' = "done")
    /\ (ret' # ret /\ program.err = "") =>
          /\ Started = Signalled
          /\ ret' = IF errs = <<>> THEN NilError ELSE UncheckedErrors(Sort(errs))

C23_AlwaysReturns ==
    /\ []C23_StateOk
    /\ [][C23_StepOk]_vars
    /\ <>(mainpc = "done" /\ errsMutex = 0 /\ Started = Signalled)

\* two workers were started, both had to merge, and the function returned
C23_Witness ==
    /\ mainpc = "done"
    /\ program.err = ""
    /\ Cardinality(Signalled) >= 2
    /\ \A w \in Signalled : Len(Batch(w)) > 0
    /\ wg = 0
    /\ errsMutex = 0
    /\ ret.kind = "UncheckedErrors"

(***************************************************************************)
(* Vocabulary of the properties of the interface walk                      *)
(***************************************************************************)
\* the type reached from t by the embedded-field promotion steps path
RECURSIVE Promote(_, _)
Promote(t, path) ==
    IF path = <<>> THEN t
    ELSE Promote(Field(maybeUnname(maybeDereference(t)), path[1]), Tail(path))
PromotionPath == SubSeq(sel.Index, 1, Len(sel.Index) - 1)
ReachedType == Promote(sel.Recv, PromotionPath)
EndsAtInterface ==
    sel.isFunc /\ sel.Recv # InvalidT /\ maybeUnname(ReachedType).k = "interface"
DirectlyEmbedded(d, t) ==
    {Embeddeds(d, maybeUnname(t))[k] : k \in 1 .. NumEmbeddeds(d, maybeUnname(t))}
\* the first directly embedded interface of t, in declaration order, whose
\* explicit and inherited methods include fn
FirstWith(d, t, fn) ==
    LET es == Embeddeds(d, maybeUnname(t))
        has == {k \in DOMAIN es : fn \in Methods(d, maybeUnname(es[k]))}
    IN  es[CHOOSE k \in has : \A j \in has : k <= j]
WalkOver == wpc \in {"returned", "panic"}
Succeeded == wpc = "returned" /\ wok

(***************************************************************************)
(* C24: the interface walk always ends with a result, a chain or 'not      *)
(* applicable'; it never crashes and never loops forever.  For a selection *)
(* whose promotion path ends at an interface that has the method, each     *)
(* iteration of the loop either finds the explicit declaration or goes     *)
(* down into a directly embedded interface that has the method, also when  *)
(* that embedded interface is not a defined type.                          *)
(***************************************************************************)
C24_StateOk ==
    /\ wpc # "panic"
    /\ wpc = "loop" =>
          /\ sel.fn \in Methods(decls, maybeUnname(currentT))
          /\ \/ explicitlyDefinesMethod(maybeUnname(currentT), sel.fn)
             \/ FirstStop(decls, maybeUnname(currentT), sel.fn) # -1
C24_StepOk ==
    wpc = "loop" =>
        \/ wpc' = "returned" /\ wok' /\ explicitlyDefinesMethod(maybeUnname(currentT), sel.fn)
        \/ /\ wpc' = "loop"
           /\ currentT' \in DirectlyEmbedded(decls, currentT)
           /\ sel.fn \in Methods(decls, maybeUnname(currentT'))
           /\ Len(result') = Len(result) + 1

C24_WalkTerminates == []C24_StateOk /\ [][C24_StepOk]_vars

(***************************************************************************)
(* C25: when the walk succeeds the chain starts with the receiver's static *)
(* type, then holds one type per embedded-field promotion step in path     *)
(* order, then one interface per embedding descent, each the first         *)
(* directly embedded interface (in declaration order) of the one before    *)
(* whose explicit and inherited methods include the method; the last       *)
(* element is an interface that declares the method explicitly.            *)
(***************************************************************************)
C25_ChainShape ==
    Succeeded =>
        LET n == Len(sel.Index)
        IN  /\ Len(result) >= n
            /\ result[1] = sel.Recv
            /\ \A k \in 1 .. n - 1 : result[k + 1] = Promote(sel.Recv, SubSeq(sel.Index, 1, k))
            /\ \A k \in n .. Len(result) - 1 :
                  /\ ~explicitlyDefinesMethod(maybeUnname(result[k]), sel.fn)
                  /\ result[k + 1] = FirstWith(decls, result[k], sel.fn)
            /\ maybeUnname(result[Len(result)]).k = "interface"
            /\ explicitlyDefinesMethod(maybeUnname(result[Len(result)]), sel.fn)

\* S3 embeds *S, S embeds A, A embeds M and B, M embeds B, and B declares X
C25_Witness ==
    /\ Succeeded
    /\ sel.fn = "X"
    /\ decls.A = <<TM, TB>>
    /\ result = <<Named("S3"), PointerTo("S"), TA, TM, TB>>

(***************************************************************************)
(* C26: the walk returns 'not applicable' exactly when the selected object *)
(* is not a function, or the receiver type is invalid, or the type reached *)
(* after the promotion steps is, after unwrapping a named type, not an     *)
(* interface; in every other case it returns a chain.                      *)
(***************************************************************************)
C26_NotApplicable ==
    WalkOver =>
        IF EndsAtInterface
        THEN Succeeded /\ result # <<>>
        ELSE wpc = "returned" /\ ~wok /\ result = <<>>

(***************************************************************************)
(* C27: result classification returns one boolean per returned value: for  *)
(* a tuple of n results a sequence of length n whose i-th element is true  *)
(* iff the i-th result type is the predeclared error type, for a single    *)
(* result a sequence of one element, true iff the result is that type;     *)
(* a type that resembles error (a defined type named error in a package)   *)
(* or implements or points to an error type is classified false.           *)
(***************************************************************************)
CallsOf(n) == {t.call : t \in CallTargets(n)}

C28_StateOk ==
    \A call \in CallsOf(node) :
        /\ ignoreCall(chk, call) <=> Matched(chk, call)
        /\ ~HasIdent(call) => ~ignoreCall(chk, call)

C28_StepOk ==
    (Stepped /\ IsCallStmt(node')) =>
        LET call == StmtCall(node')
        IN  /\ ignoreCall(chk, call) => chk' = chk
            /\ (~HasIdent(call) /\ SomeSlotTrue(call)) =>
                    /\ Len(Emitted) = 1
                    /\ Emitted[1].pos = Position(call.Lparen)
            /\ ignoreCall(chk', call) = ignoreCall(chk, call)

IsMulti(n) == n.kind = "AssignStmt" /\ Len(n.Rhs) > 1
AssertPairs(n) ==
    {i \in DOMAIN n.Lhs : n.Rhs[i].ekind = "TypeAssertExpr" /\ n.Rhs[i].hasType}

C29_Original ==
    [][(Stepped /\ IsMulti(node') /\ chk.asserts) =>
        \A i \in AssertPairs(node') :
            EmittedAt(LhsPos(node'.Lhs[i])) = (IF IsBlank(node'.Lhs[i]) THEN 1 ELSE 0)]_vars

(***************************************************************************)
(* C29 (amended): such a type assertion is flagged, once and at its        *)
(* target, exactly when the target is an identifier, the discard           *)
(* identifier '_' and a named variable alike, with blank checking on or    *)
(* off; a pair whose target is not an identifier is not flagged.           *)
(***************************************************************************)
C29_MultiAssert ==
    [][(Stepped /\ IsMulti(node') /\ chk.asserts) =>
        \A i \in AssertPairs(node') :
            EmittedAt(LhsPos(node'.Lhs[i])) =
                (IF node'.Lhs[i].ekind = "Ident" THEN 1 ELSE 0)]_vars

\* v, m[k] = x.(T), y.(U) without blank checking: only v is reported
C29_Witness ==
    /\ IsMulti(node)
    /\ AssertPairs(node) = {1, 2}
    /\ node.Lhs[1] = Ident("v", node.Lhs[1].NamePos)
    /\ node.Lhs[2].ekind = "IndexExpr"
    /\ chk.asserts
    /\ ~chk.blank
    /\ walked = 1
    /\ Len(chk.errors) = 1
    /\ chk.errors[1].pos = Position(node.Lhs[1].NamePos)

(***************************************************************************)
(* The visitor on statements whose call has no usable type.  c.pkg.Types   *)
(* has no type for a call the type checker could not resolve (a call into  *)
(* the pseudo-package C, a call in a file with type errors), and a call    *)
(* of a single result can stand where the syntax has two targets.          *)
(***************************************************************************)
NoType == Type("nil", NoPkg, "", <<>>)              \* Types[call].Type == nil
InvalidType == Type("Basic", NoPkg, "invalid type", <<>>)    \* types.Typ[types.Invalid]
UntypedResults == {NoType, InvalidType, ErrorT}
UntypedCalls(pos) ==
    {Call(f, pos, t) : f \in {FunIdF, FunSelF, FunUnres, FunRecoverB}, t \in UntypedResults}

UntypedNodes(b) ==
    {ExprStmt(x) : x \in UntypedCalls(b)}
    \cup {AssignStmt(l, <<x>>) : l \in Lhs1(b) \cup Lhs2(b), x \in UntypedCalls(b + 2)}
UntypedAt == [k \in 0 .. MaxWalk |-> UntypedNodes(StmtBase(k))]

InitUntyped ==
    /\ chk \in Checkers
    /\ node = NoNode
    /\ walked = 0
    /\ panicked = FALSE
    /\ WalkIdle
    /\ AggIdle
    /\ MainIdle

VisitUntyped ==
    /\ ~panicked
    /\ walked < MaxWalk
    /\ \E n \in UntypedAt[walked] :
          /\ node' = n
          /\ chk' = Visit(chk, n).chk
          /\ panicked' = Visit(chk, n).panic
    /\ walked' = walked + 1
    /\ UNCHANGED <<walkVars, aggVars, mainVars>>

NextUntyped == VisitUntyped

SpecUntyped == InitUntyped /\ [][NextUntyped]_vars

(***************************************************************************)
(* C30: the visitor never aborts a traversal.  For every statement it      *)
(* handles, including an assignment with one right-hand call and N         *)
(* targets where the call's type is missing, unresolvable or not a tuple,  *)
(* every lookup of classification slot i for target i is within the        *)
(* classification sequence, a call without a type is not flagged (unless   *)
(* it is the recover built-in), and Visit returns, so the walk continues.  *)
(***************************************************************************)
Unanalyzable(call) == call.typ \in {NoType, InvalidType}
SlotsInBounds(n) ==
    (SingleRhs(n, "CallExpr") /\ chk.blank /\ ~ignoreCall(chk, n.Rhs[1])) =>
        \A i \in DOMAIN n.Lhs :
            (IsBlank(n.Lhs[i]) /\ ~isRecover(n.Rhs[1])) => i \in DOMAIN errorsByArg(n.Rhs[1])

C30_NeverAborts ==
    [][Stepped =>
        /\ SlotsInBounds(node')
        /\ ~panicked'
        /\ \A t \in CallTargets(node') :
              (Unanalyzable(t.call) /\ ~IsRecoverBuiltin(t.call)) =>
                  \A p \in t.at : EmittedAt(p) = 0]_vars

\* the same without the lookups: what is left of the claim when the index
\* is in range
C30_WhenReturned ==
    [][(Stepped /\ ~panicked') =>
        \A t \in CallTargets(node') :
            (Unanalyzable(t.call) /\ ~IsRecoverBuiltin(t.call)) =>
                \A p \in t.at : EmittedAt(p) = 0]_vars
====
